---------------------------- MODULE Spec2Model ----------------------------
(***************************************************************************)
(* Model of the job-outreach evaluation harness.                           *)
(*                                                                         *)
(*   src/src/validation_engine.py   the five checks and run_all_checks    *)
(*   src/src/evaluation_runner.py   generation loop, per-scenario and     *)
(*                                  corpus aggregation                     *)
(*   src/streamlit_app.py           the Run Evaluation handler             *)
(*                                                                         *)
(* Texts.  A text is a record [lead, pad]: the string made of the words    *)
(* of lead (lower-cased tokens, in order) followed by pad further words    *)
(* that match none of the patterns the checks look for.  The empty string  *)
(* is [lead |-> <<>>, pad |-> 0].                                          *)
(*                                                                         *)
(* Numbers.  A confidence is kept in hundredths (0.75 is 75).  A rate is   *)
(* an exact fraction <<n, d>> in lowest terms; the result of dividing by   *)
(* zero is the value ZeroDivisionError.                                    *)
(*                                                                         *)
(* Names.  evaluate_scenario and the user prompt of                        *)
(* generate_message_with_word_limit read the names allowed_facts and       *)
(* strict_mode, which this revision of evaluation_runner.py binds          *)
(* nowhere; the model reads them as the parameter approved_facts_final     *)
(* and as evaluation_mode = "STRICT", the values every caller passes in    *)
(* those positions.                                                        *)
(***************************************************************************)
EXTENDS Integers, Sequences, FiniteSets, TLC

\* ------------------------------------------------------------------------
\* Helpers
\* ------------------------------------------------------------------------

None == "None"

Range(s) == {s[i] : i \in 1..Len(s)}

RECURSIVE SeqFilter(_, _)
\* the elements of s that belong to keep, in order (a list comprehension)
SeqFilter(s, keep) ==
    IF s = <<>> THEN <<>>
    ELSE IF Head(s) \in keep THEN <<Head(s)>> \o SeqFilter(Tail(s), keep)
         ELSE SeqFilter(Tail(s), keep)

RECURSIVE Count(_, _)
\* how many elements of s belong to S
Count(s, S) ==
    IF s = <<>> THEN 0
    ELSE (IF Head(s) \in S THEN 1 ELSE 0) + Count(Tail(s), S)

Min2(a, b) == IF a <= b THEN a ELSE b
Max2(a, b) == IF a >= b THEN a ELSE b

\* ------------------------------------------------------------------------
\* Texts
\* ------------------------------------------------------------------------

Txt(lead, pad) == [lead |-> lead, pad |-> pad]

EmptyText == Txt(<<>>, 0)

\* Python truthiness of a str
IsEmpty(text) == text.lead = <<>> /\ text.pad = 0

\* text.split(): the number of whitespace-separated words
WordsOf(text) == Len(text.lead) + text.pad

\* needle in text_lower, for a needle without spaces: the vocabulary words
\* that contain the needle as a substring
Sub(needle) ==
    CASE needle = "github"      -> {"github", "https://github.com/u"}
      [] needle = "github.com"  -> {"https://github.com/u"}
      [] needle = "linkedin.com" -> {"https://linkedin.com/in/u"}
      [] needle = "portfolio"   -> {"portfolio"}
      [] needle = "chat"        -> {"chat"}
      [] needle = "connect"     -> {"connect"}
      [] needle = "schedule"    -> {"schedule"}
      [] needle = "discuss"     -> {"discuss"}
      [] needle = "15-minute"   -> {"15-minute"}
      [] needle = "phd"         -> {"phd"}
      [] needle = "doctorate"   -> {"doctorate"}
      [] needle = "mba"         -> {"mba"}
      [] needle = "ba"          -> {"ba", "mba", "database"}
      [] needle = "bachelor"    -> {"bachelor"}
      [] needle = "gpa"         -> {"gpa"}
      [] needle = "published"   -> {"published"}
      [] needle = "publication" -> {"publication"}
      [] needle = "paper"       -> {"paper"}
      [] needle = "award"       -> {"award"}
      [] needle = "prize"       -> {"prize"}
      [] needle = "honor"       -> {"honor", "honors"}
      [] needle = "education"   -> {"education", "educational"}
      [] needle = "experience"  -> {"experience", "experience;"}
      [] needle = "graduate"    -> {"graduate", "graduated"}
      [] needle = "intern"      -> {"intern", "interned", "internship"}
      [] needle = "http"        -> {"https://github.com/u", "https://linkedin.com/in/u",
                                    "https://me.app"}
      [] OTHER                  -> {needle}

\* needle in text.lower()
HasSub(text, needle) == \E i \in 1..Len(text.lead) : text.lead[i] \in Sub(needle)

\* the words of phrase occur consecutively in the text
HasPhrase(text, phrase) ==
    \E i \in 1..Len(text.lead) :
        /\ i + Len(phrase) - 1 <= Len(text.lead)
        /\ \A k \in 1..Len(phrase) : text.lead[i + k - 1] = phrase[k]

\* word.lower()
LowerWord(w) ==
    CASE w = "NYU" -> "nyu"
      [] w = "Won" -> "won"
      [] w = "I" -> "i"
      [] w = "My" -> "my"
      [] w = "Built" -> "built"
      [] w = "GitHub" -> "github"
      [] w = "NeurIPS" -> "neurips"
      [] w = "Profile" -> "profile"
      [] w = "LinkedIn" -> "linkedin"
      [] w = "Graduated" -> "graduated"
      [] w = "https://GitHub.com/U" -> "https://github.com/u"
      [] w = "Published" -> "published"
      [] w = "ACM" -> "acm"
      [] w = "Award" -> "award"
      [] w = "PhD" -> "phd"
      [] w = "Computer" -> "computer"
      [] w = "Science" -> "science"
      [] w = "MIT" -> "mit"
      [] w = "Worked" -> "worked"
      [] w = "Google" -> "google"
      [] w = "GOOGLE" -> "google"
      [] w = "Acme" -> "acme"
      [] w = "Goldman" -> "goldman"
      [] w = "Sachs" -> "sachs"
      [] w = "LLM" -> "llm"
      [] w = "Has" -> "has"
      [] w = "NeurIPS;" -> "neurips;"
      [] w = "ICML;" -> "icml;"
      [] w = "CVPR;" -> "cvpr;"
      [] w = "ACL;" -> "acl;"
      [] w = "MIT;" -> "mit;"
      [] w = "Education" -> "education"
      [] OTHER -> w

\* text.lower()
LowerText(words) == [i \in 1..Len(words) |-> LowerWord(words[i])]

\* A piece of formatted text (a reason, a note) is a tuple: the fixed words
\* of its f-string followed by the values put into it.

\* "; ".join(items)
RECURSIVE Join(_)
Join(items) ==
    IF items = <<>> THEN <<>>
    ELSE IF Len(items) = 1 THEN <<items[1]>>
    ELSE <<items[1], <<"; ">> >> \o Join(Tail(items))

\* ------------------------------------------------------------------------
\* Vocabulary classes
\* ------------------------------------------------------------------------

\* words matched by https?://[^\s<>"{}|\\^`\[\]]+
UrlTokens == {"https://github.com/u", "https://linkedin.com/in/u", "https://me.app"}

\* words matched by \b(?:19|20)\d{2}\b
YearTokens == {"2025", "2026"}

\* words matched by \d+% and by \d+
PctTokens == {"50%"}
NumTokens == {"3"}

\* words that contain a digit
DigitTokens == YearTokens \cup PctTokens \cup NumTokens \cup {"3.9", "15-minute"}

\* words matched by the emoji character class
EmojiTokens == {":emoji:"}

\* words made of letters only, of three letters or more: what
\* [A-Za-z][A-Za-z\s&]+? followed by a separator captures as a name
NameTokens == {"google", "acme", "goldman", "sachs", "the", "github", "portfolio",
               "chat", "call", "phd", "doctorate", "mba", "bachelor", "gpa",
               "published", "paper", "award", "hello", "worked", "joined",
               "database", "improved", "improvement", "impact", "significant"}

\* ------------------------------------------------------------------------
\* validation_engine.py
\* ------------------------------------------------------------------------

within_word_limit(text, max_words) ==
    IF IsEmpty(text) THEN FALSE
    ELSE WordsOf(text) <= max_words

\* re.findall over the text, in order of occurrence
extract_urls(text) == SeqFilter(text.lead, UrlTokens)

NoLinks == [github |-> None, portfolio |-> None, linkedin |-> None, other_links |-> <<>>]

contains_github_url(message, approved_facts, link_facts) ==
    \/ HasSub(message, "github")
    \/ HasSub(message, "github.com")
    \/ \E k \in 1..Len(approved_facts) :
          /\ \/ HasSub(approved_facts[k], "github.com")
             \/ HasSub(approved_facts[k], "github") /\ HasSub(approved_facts[k], "http")
          /\ \E u \in Range(extract_urls(approved_facts[k])) :
                u \in Sub("github") /\ HasSub(message, u)
    \/ /\ link_facts.github # None
       /\ \/ HasSub(message, link_facts.github)
          \/ link_facts.github \in Sub("github.com")

\* the host of a URL, https?://([^/]+)
DomainOf(url) ==
    CASE url = "https://github.com/u"      -> "github.com"
      [] url = "https://linkedin.com/in/u" -> "linkedin.com"
      [] url = "https://me.app"            -> "me.app"
      [] OTHER                             -> None

contains_portfolio_url(message, approved_facts, link_facts) ==
    \/ HasSub(message, "portfolio")
    \/ HasPhrase(message, <<"personal", "website">>)
    \/ HasPhrase(message, <<"personal", "site">>)
    \/ \E u \in UrlTokens : HasPhrase(message, <<"profile", "link", u>>)
    \/ /\ link_facts.portfolio # None
       /\ \/ HasSub(message, link_facts.portfolio)
          \/ /\ DomainOf(link_facts.portfolio) # None
             /\ \/ HasSub(message, DomainOf(link_facts.portfolio))
                \/ \E i \in 1..Len(message.lead) :
                      DomainOf(message.lead[i]) = DomainOf(link_facts.portfolio)
          \/ \E k \in 1..Len(approved_facts) :
                HasSub(approved_facts[k], link_facts.portfolio)
    \/ \E u \in Range(extract_urls(message)) :
          /\ u \notin Sub("github.com")
          /\ u \notin Sub("linkedin.com")
          /\ \/ \E k \in 1..Len(approved_facts) : HasSub(approved_facts[k], u)
             \/ link_facts.portfolio # None /\ link_facts.portfolio = u
             \/ \E j \in 1..Len(link_facts.other_links) : link_facts.other_links[j] = u

ChatKeywords == <<"chat", "connect", "schedule", "discuss", "15-minute">>

contains_chat_ask(message) ==
    \E k \in 1..Len(ChatKeywords) : HasSub(message, ChatKeywords[k])

\* item.lower()
ItemLower(item) ==
    CASE item = "GitHub"       -> "github"
      [] item = "Portfolio"    -> "portfolio"
      [] item = "LinkedIn"     -> "linkedin"
      [] item = "Ask for chat" -> "ask for chat"
      [] OTHER                 -> item

\* the LinkedIn branch of must_include_check
LinkedInFound(text, approved_facts, link_facts) ==
    \/ HasSub(text, "linkedin.com")
    \/ \E k \in 1..Len(approved_facts) :
          /\ HasSub(approved_facts[k], "linkedin.com")
          /\ \E u \in Range(extract_urls(approved_facts[k])) :
                u \in Sub("linkedin.com") /\ HasSub(text, u)
    \/ link_facts.linkedin # None /\ HasSub(text, link_facts.linkedin)

\* whether one required item is found in the text
ItemPresent(text, item, approved_facts, link_facts) ==
    LET il == ItemLower(item) IN
    IF il \in {"github", "mention_github"}
      THEN contains_github_url(text, approved_facts, link_facts)
    ELSE IF il \in {"portfolio", "mention_portfolio"}
      THEN contains_portfolio_url(text, approved_facts, link_facts)
    ELSE IF il \in {"linkedin", "mention_linkedin"}
      THEN LinkedInFound(text, approved_facts, link_facts)
    ELSE IF il \in {"ask for chat", "request chat", "request_chat", "chat request"}
      THEN contains_chat_ask(text)
    ELSE HasSub(text, il)

\* returns [ok, items]: (all_present, missing_items)
must_include_check(text, must_include, strict_mode, approved_facts, link_facts) ==
    IF IsEmpty(text) \/ must_include = <<>>
      THEN [ok |-> (Len(must_include) = 0), items |-> must_include]
    ELSE LET present == {it \in Range(must_include) :
                            ItemPresent(text, it, approved_facts, link_facts)}
             missing == SeqFilter(must_include, Range(must_include) \ present)
         IN [ok |-> (Len(missing) = 0), items |-> missing]

SlangTokens == {"yo", "bro", "asap", "pls", "thx", "lol"}

\* returns [ok, items]: (is_professional, issues)
tone_professional(text, strict_mode) ==
    IF IsEmpty(text) THEN [ok |-> FALSE, items |-> << <<"Empty message">> >>]
    ELSE LET emoji == IF \E i \in 1..Len(text.lead) : text.lead[i] \in EmojiTokens
                        THEN << <<"Contains emojis">> >> ELSE <<>>
             slangs == SeqFilter(text.lead, SlangTokens)
             slang == IF slangs # <<>>
                        THEN << <<"Slang detected: ", slangs[1]>> >> ELSE <<>>
             exclamation_count == Count(text.lead, {"!"})
             excl == IF /\ exclamation_count > 2
                        /\ (strict_mode \/ exclamation_count > 3)
                       THEN << <<"Too many exclamation marks ", exclamation_count>> >>
                       ELSE <<>>
             issues == emoji \o slang \o excl
         IN [ok |-> (Len(issues) = 0), items |-> issues]

\* some approved fact contains the needle (any(needle in fact.lower() ...))
AnyFactHas(allowed_facts, needle) ==
    \E k \in 1..Len(allowed_facts) : HasSub(allowed_facts[k], needle)

\* the words that follow an employment phrase and are captured as a company
\* name of three letters or more
EmploymentPhrases == { <<"worked", "at">>, <<"worked", "for">>,
                       <<"previously", "at">>, <<"previously", "with">>,
                       <<"interned", "at">>, <<"interned", "with">>,
                       <<"employed", "at">>, <<"employed", "by">>,
                       <<"joined">>, <<"served", "at">> }

\* an employment phrase ends just before position j of the text
PhraseEndsBefore(text, j) ==
    \E ph \in EmploymentPhrases :
        /\ j - Len(ph) >= 1
        /\ \A k \in 1..Len(ph) : text.lead[j - Len(ph) + k - 1] = ph[k]

\* the patterns are matched against text_lower
CapturedCompanies(text) ==
    LET text_lower == Txt(LowerText(text.lead), text.pad)
    IN {text_lower.lead[j] : j \in {i \in 1..Len(text_lower.lead) :
                                      /\ text_lower.lead[i] \in NameTokens
                                      /\ PhraseEndsBefore(text_lower, i)}}

\* word.title(), for the words a company name is captured from
TitleWord(w) ==
    CASE w = "google" -> "Google"
      [] w = "acme" -> "Acme"
      [] w = "goldman" -> "Goldman"
      [] w = "sachs" -> "Sachs"
      [] w = "the" -> "The"
      [] w = "github" -> "Github"
      [] w = "portfolio" -> "Portfolio"
      [] w = "chat" -> "Chat"
      [] w = "call" -> "Call"
      [] w = "phd" -> "Phd"
      [] w = "doctorate" -> "Doctorate"
      [] w = "mba" -> "Mba"
      [] w = "bachelor" -> "Bachelor"
      [] w = "gpa" -> "Gpa"
      [] w = "published" -> "Published"
      [] w = "paper" -> "Paper"
      [] w = "award" -> "Award"
      [] w = "hello" -> "Hello"
      [] w = "worked" -> "Worked"
      [] w = "joined" -> "Joined"
      [] w = "database" -> "Database"
      [] w = "improved" -> "Improved"
      [] w = "improvement" -> "Improvement"
      [] w = "impact" -> "Impact"
      [] w = "significant" -> "Significant"
      [] OTHER -> w

\* the number that follows "gpa" in the text, or None
GpaValueOf(text) ==
    LET vals == {"3.9"} \cup YearTokens \cup NumTokens
        hits == {i \in 1..Len(text.lead) :
                    /\ text.lead[i] \in {"gpa"}
                    /\ i < Len(text.lead)
                    /\ text.lead[i + 1] \in vals}
    IN IF hits = {} THEN None
       ELSE text.lead[(CHOOSE i \in hits : \A j \in hits : i <= j) + 1]

PubIndicators == <<"published", "publication", "paper", "award", "prize", "honor">>

\* returns [ok, items]: (no_fabrication, fabrications).  company is the
\* scenario's target company as its sequence of words; a captured name is
\* one word, and is dropped when it equals company.lower()
detects_fabrication(text, allowed_facts, company, target_role) ==
    IF IsEmpty(text) \/ allowed_facts = <<>> THEN [ok |-> FALSE, items |-> <<>>]
    ELSE
    LET phd == IF /\ \E i \in 1..Len(text.lead) : text.lead[i] \in {"phd", "doctorate"}
                  /\ ~(AnyFactHas(allowed_facts, "phd")
                         \/ AnyFactHas(allowed_facts, "doctorate"))
                 THEN << <<"Fabricated degree: ", "PhD">> >> ELSE <<>>
        mba == IF /\ \E i \in 1..Len(text.lead) : text.lead[i] = "mba"
                  /\ ~AnyFactHas(allowed_facts, "mba")
                 THEN << <<"Fabricated degree: ", "MBA">> >> ELSE <<>>
        ba  == IF /\ \E i \in 1..Len(text.lead) : text.lead[i] \in {"ba", "bachelor"}
                  /\ ~(AnyFactHas(allowed_facts, "ba")
                         \/ AnyFactHas(allowed_facts, "bachelor"))
                 THEN << <<"Fabricated degree: ", "BA">> >> ELSE <<>>
        years == SeqFilter(text.lead, YearTokens)
        badYears == SeqFilter(years, {y \in YearTokens : ~AnyFactHas(allowed_facts, y)})
        year == IF badYears # <<>>
                  THEN << <<"Fabricated year: ", badYears[1]>> >> ELSE <<>>
        gpa_value == GpaValueOf(text)
        gpa == IF /\ gpa_value # None
                  /\ ~(AnyFactHas(allowed_facts, gpa_value)
                         \/ AnyFactHas(allowed_facts, "gpa"))
                 THEN << <<"Fabricated GPA: ", gpa_value>> >> ELSE <<>>
        found_companies == {c \in CapturedCompanies(text) : <<c>> # LowerText(company)}
        unknown == {c \in found_companies : ~AnyFactHas(allowed_facts, c)}
        \* found_companies is a set: which unknown employer is named first
        \* depends on its iteration order
        employer == IF unknown # {}
                      THEN << <<"Fabricated employer: ",
                              TitleWord(CHOOSE c \in unknown : TRUE)>> >>
                      ELSE <<>>
        badPubs == SeqFilter(PubIndicators,
                      {ind \in Range(PubIndicators) :
                          HasSub(text, ind) /\ ~AnyFactHas(allowed_facts, ind)})
        pub == IF badPubs # <<>> THEN << <<"Fabricated ", badPubs[1]>> >> ELSE <<>>
        fabrications == phd \o mba \o ba \o year \o gpa \o employer \o pub
    IN [ok |-> (Len(fabrications) = 0), items |-> fabrications]

\* The four metric patterns, each as the set of word sequences it matches.
MetricNouns == {"improvement", "increase", "decrease", "reduction", "growth"}
MetricVerbs == {"improved", "increased", "reduced", "decreased", "cut"}

MetricPatterns ==
    << {<<p, n>> : p \in PctTokens, n \in MetricNouns},
       {<<v, "by", q>> : v \in MetricVerbs, q \in PctTokens \cup NumTokens},
       {<<"top", p>> : p \in PctTokens},
       {<<n, t, f>> : n \in NumTokens, t \in {"times", "fold"}, f \in {"faster", "better"}} >>

\* the first match of one pattern in the text (re.finditer, first item), or <<>>
FirstMatch(text, phrases) ==
    LET at(i) == {ph \in phrases :
                     /\ i + Len(ph) - 1 <= Len(text.lead)
                     /\ \A k \in 1..Len(ph) : text.lead[i + k - 1] = ph[k]}
        hits == {i \in 1..Len(text.lead) : at(i) # {}}
    IN IF hits = {} THEN <<>>
       ELSE CHOOSE ph \in at(CHOOSE i \in hits : \A j \in hits : i <= j) : TRUE

\* metric_text in fact.lower() for some fact
AnyFactHasPhrase(allowed_facts, phrase) ==
    \E k \in 1..Len(allowed_facts) : HasPhrase(allowed_facts[k], phrase)

\* the claim one metric pattern contributes: only its first match is looked at
MetricClaim(text, allowed_facts, strict_mode, phrases) ==
    LET m == FirstMatch(text, phrases) IN
    IF m = <<>> THEN <<>>
    ELSE IF AnyFactHasPhrase(allowed_facts, m) THEN <<>>
    ELSE IF strict_mode \/ (\E k \in 1..Len(m) : m[k] \in PctTokens)
           THEN << <<"Unsupported metric claim: ", m>> >>
    ELSE <<>>

VagueImpact == << <<"significant", "impact">>, <<"measurable", "impact">>,
                  <<"substantial", "improvement">>, <<"dramatic", "increase">>,
                  <<"major", "improvement">> >>

\* returns [ok, items]: (no_unsupported, claims).  The 100-character context
\* of a vague phrase covers the whole lead of the texts modelled here.
detects_unsupported_claims(text, allowed_facts, strict_mode) ==
    IF IsEmpty(text) \/ allowed_facts = <<>> THEN [ok |-> TRUE, items |-> <<>>]
    ELSE
    LET metrics == MetricClaim(text, allowed_facts, strict_mode, MetricPatterns[1])
                   \o MetricClaim(text, allowed_facts, strict_mode, MetricPatterns[2])
                   \o MetricClaim(text, allowed_facts, strict_mode, MetricPatterns[3])
                   \o MetricClaim(text, allowed_facts, strict_mode, MetricPatterns[4])
        hasDigit == \E i \in 1..Len(text.lead) : text.lead[i] \in DigitTokens
        vagueHits == SeqFilter(VagueImpact,
                        {ph \in Range(VagueImpact) : HasPhrase(text, ph) /\ ~hasDigit})
        vague == IF strict_mode /\ vagueHits # <<>>
                   THEN << <<"Unsupported vague claim: ", vagueHits[1]>> >> ELSE <<>>
        claims == metrics \o vague
    IN [ok |-> (Len(claims) = 0), items |-> claims]

\* f"Missing: {item}" for every missing item
RECURSIVE MissingReasons(_)
MissingReasons(items) ==
    IF items = <<>> THEN <<>>
    ELSE << <<"Missing: ", Head(items)>> >> \o MissingReasons(Tail(items))

\* overall_pass without the unsupported-claims conjunct
overall_pass_dropping_unsupported(word_limit_ok, must_include_ok, tone_ok, no_fabrication, no_unsupported) ==
    word_limit_ok /\ must_include_ok /\ tone_ok /\ no_fabrication

\* the conjunction run_all_checks stores as overall_pass
overall_pass_of(word_limit_ok, must_include_ok, tone_ok, no_fabrication, no_unsupported) ==
    word_limit_ok /\ must_include_ok /\ tone_ok /\ no_fabrication /\ no_unsupported

run_all_checks(text, max_words, must_include, allowed_facts, strict_mode, company, target_role, link_facts) ==
    LET word_limit_ok == within_word_limit(text, max_words)
        mi == must_include_check(text, must_include, strict_mode, allowed_facts, link_facts)
        tone == tone_professional(text, strict_mode)
        fab == detects_fabrication(text, allowed_facts, company, target_role)
        uns == detects_unsupported_claims(text, allowed_facts, strict_mode)
        overall_pass == overall_pass_of(word_limit_ok, mi.ok, tone.ok, fab.ok, uns.ok)
        failure_reasons ==
            (IF ~word_limit_ok
               THEN << <<"Word limit exceeded: ", WordsOf(text), max_words>> >> ELSE <<>>)
            \o (IF ~mi.ok THEN MissingReasons(mi.items) ELSE <<>>)
            \o (IF ~tone.ok THEN tone.items ELSE <<>>)
            \o (IF ~fab.ok THEN fab.items ELSE <<>>)
            \o (IF ~uns.ok THEN uns.items ELSE <<>>)
    IN [within_word_limit |-> word_limit_ok,
        must_include_ok |-> mi.ok,
        tone_ok |-> tone.ok,
        fabrication_detected |-> ~fab.ok,
        unsupported_claims_detected |-> ~uns.ok,
        overall_pass |-> overall_pass,
        failure_reasons |-> failure_reasons,
        notes |-> IF failure_reasons # <<>> THEN Join(failure_reasons)
                  ELSE << <<"All checks passed">> >>]

\* ------------------------------------------------------------------------
\* Exact fractions (the float rates of the aggregation code)
\* ------------------------------------------------------------------------

\* the outcome of a division by zero: no fraction has denominator 0
ZeroDivisionError == <<0, 0>>

RECURSIVE GCD(_, _)
GCD(a, b) == IF b = 0 THEN a ELSE GCD(b, a % b)

\* the fraction n/d in lowest terms
Frac(n, d) == IF n = 0 THEN <<0, 1>> ELSE <<n \div GCD(n, d), d \div GCD(n, d)>>

Zero == Frac(0, 1)

\* n / d of two ints
IntDiv(n, d) == IF d = 0 THEN ZeroDivisionError ELSE Frac(n, d)

RatAdd(p, q) == Frac(p[1] * q[2] + q[1] * p[2], p[2] * q[2])

\* q / k for a rate q and an int k
RatDiv(q, k) == IF k = 0 THEN ZeroDivisionError ELSE Frac(q[1], q[2] * k)

RECURSIVE RatSum(_)
\* sum(...) of a list of rates
RatSum(qs) == IF qs = <<>> THEN Zero ELSE RatAdd(Head(qs), RatSum(Tail(qs)))

\* ------------------------------------------------------------------------
\* evaluation_runner.py
\* ------------------------------------------------------------------------

max_attempts == 3
DefaultConfidence == 50
OverconfidenceThreshold == 75

\* A completion is [body, word_count_line, confidence_line]: the message
\* text followed by the optional lines "Word Count: n" and "Confidence: c"
\* (c in hundredths), each a one-element sequence, or <<>> when the model
\* left the line out.

\* returns the confidence in hundredths, clamped to [0, 100]
extract_confidence(response) ==
    IF response.confidence_line # <<>>
      THEN Max2(0, Min2(100, response.confidence_line[1]))
    ELSE DefaultConfidence

count_words(text) == IF IsEmpty(text) THEN 0 ELSE WordsOf(text)

\* the message with the Word Count and Confidence lines removed, stripped
message_clean_of(response) == response.body

\* retry condition that forgets the attempt cap's last slot
over_limit_retry_uncapped(actual_word_count, max_words, attempt) ==
    actual_word_count > max_words /\ attempt < max_attempts

\* "over limit and not last attempt": the loop goes round again
over_limit_retry(actual_word_count, max_words, attempt) ==
    actual_word_count > max_words /\ attempt < max_attempts - 1

\* an except clause that gives up on the first exception
exception_returns_always(attempt) == TRUE

\* the except clause returns the error result only on the last attempt;
\* on an earlier attempt it falls through and the loop goes round again
exception_returns(attempt) == attempt = max_attempts - 1

\* the result returned for a completion that is kept
gen_ok(response) ==
    [message |-> message_clean_of(response),
     word_count |-> count_words(message_clean_of(response)),
     confidence_score |-> extract_confidence(response),
     error |-> None]

\* the result returned when the last attempt raised
gen_error(e) ==
    [message |-> EmptyText, word_count |-> 0, confidence_score |-> 0, error |-> e]

\* error-case verdicts that leave the fabrication flag down
error_check_result_open(error) ==
    [within_word_limit |-> FALSE,
     must_include_ok |-> FALSE,
     tone_ok |-> FALSE,
     fabrication_detected |-> FALSE,
     unsupported_claims_detected |-> TRUE,
     overall_pass |-> FALSE,
     failure_reasons |-> << <<"Generation error: ", error>> >>,
     notes |-> << <<"Error: ", error>> >>]

\* the verdicts recorded for a run whose generation reported an error
error_check_result(error) ==
    [within_word_limit |-> FALSE,
     must_include_ok |-> FALSE,
     tone_ok |-> FALSE,
     fabrication_detected |-> TRUE,
     unsupported_claims_detected |-> TRUE,
     overall_pass |-> FALSE,
     failure_reasons |-> << <<"Generation error: ", error>> >>,
     notes |-> << <<"Error: ", error>> >>]

\* the "run" field of the record of loop index run_idx
run_number(run_idx) == run_idx + 1

\* the loop over the runs also stops at a run that reported an error
last_run_or_error(run_idx, runs_, gen_result) ==
    run_idx = runs_ - 1 \/ gen_result.error # None

\* for run_idx in range(runs): whether run_idx is the last index
last_run(run_idx, runs_, gen_result) == run_idx = runs_ - 1

\* the verdicts of one run, and whether the validation engine was called
\* for them: the fixed error verdicts, or run_all_checks (without link_facts)
check_result_of(scenario, facts, strict, gen_result) ==
    IF gen_result.error # None
      THEN [engine_called |-> FALSE,
            verdicts |-> error_check_result(gen_result.error)]
    ELSE [engine_called |-> TRUE,
          verdicts |-> run_all_checks(gen_result.message, scenario.max_words,
                                      scenario.must_include, facts, strict,
                                      scenario.company, scenario.target_role, NoLinks)]

\* the record appended to results for one run
run_record(scenario, facts, strict, run_idx, gen_result) ==
    LET check_result == check_result_of(scenario, facts, strict, gen_result).verdicts
    IN [run |-> run_number(run_idx),
        message |-> gen_result.message,
        confidence |-> gen_result.confidence_score,
        word_count |-> gen_result.word_count] @@ check_result

\* sum(1 for r in results if r[f])
CountRuns(results, f) == Cardinality({i \in 1..Len(results) : results[i][f]})

\* count / len(results) if results else 0.0
RateOf(count, results) == IF results # <<>> THEN IntDiv(count, Len(results)) ELSE Zero

\* strict threshold
overconfident_count_strict(results) ==
    Cardinality({i \in 1..Len(results) :
        results[i].confidence > OverconfidenceThreshold /\ ~results[i].overall_pass})

overconfident_count_of(results) ==
    Cardinality({i \in 1..Len(results) :
        results[i].confidence >= OverconfidenceThreshold /\ ~results[i].overall_pass})

\* stability read as "every run passed"
stability_all_pass(results) == \A i \in 1..Len(results) : results[i].overall_pass

\* len(set(r["overall_pass"] for r in results)) == 1
stability_of(results) ==
    Cardinality({results[i].overall_pass : i \in 1..Len(results)}) = 1

\* the dictionary evaluate_scenario returns, from the runs it collected
scenario_result(scenario, results) ==
    LET overconfident_count == overconfident_count_of(results)
    IN [scenario_id |-> scenario.id,
        scenario |-> scenario,
        pass_rate |-> RateOf(CountRuns(results, "overall_pass"), results),
        fabrication_rate |-> RateOf(CountRuns(results, "fabrication_detected"), results),
        unsupported_rate |-> RateOf(CountRuns(results, "unsupported_claims_detected"), results),
        overconfidence_rate |-> RateOf(overconfident_count, results),
        overconfident |-> (overconfident_count > 0),
        stability |-> stability_of(results),
        runs |-> results]

\* the list of one field of every scenario result
FieldOf(evaluation_results, f) ==
    [i \in 1..Len(evaluation_results) |-> evaluation_results[i][f]]

\* the means over a non-empty list of scenario results
overall_metrics_of(evaluation_results) ==
    LET total_scenarios == Len(evaluation_results)
    IN [pass_rate |-> RatDiv(RatSum(FieldOf(evaluation_results, "pass_rate")), total_scenarios),
        fabrication_rate |->
            RatDiv(RatSum(FieldOf(evaluation_results, "fabrication_rate")), total_scenarios),
        unsupported_rate |->
            RatDiv(RatSum(FieldOf(evaluation_results, "unsupported_rate")), total_scenarios),
        overconfidence_rate |->
            RatDiv(RatSum(FieldOf(evaluation_results, "overconfidence_rate")), total_scenarios),
        stability_rate |-> IntDiv(CountRuns(evaluation_results, "stability"), total_scenarios)]

\* compute_overall_metrics without the empty-list guard
compute_overall_metrics_unguarded(evaluation_results) ==
    overall_metrics_of(evaluation_results)

compute_overall_metrics(evaluation_results) ==
    IF evaluation_results = <<>>
      THEN [pass_rate |-> Zero, fabrication_rate |-> Zero, unsupported_rate |-> Zero,
            overconfidence_rate |-> Zero, stability_rate |-> Zero]
    ELSE overall_metrics_of(evaluation_results)

\* ------------------------------------------------------------------------
\* Inputs
\* ------------------------------------------------------------------------

MaxRuns == 2

\* approved facts of the session
FactDegree == Txt(<<"ms", "in", "cs", "2026">>, 0)
FactGithub == Txt(<<"github", "https://github.com/u">>, 0)
SessionFacts == <<FactDegree, FactGithub>>

\* the extracted facts the session's approved facts come from
SessionExtracted ==
    << [value |-> FactDegree, category |-> "education"],
       [value |-> FactGithub, category |-> "links"] >>

\* two scenarios as the add-scenario form builds them
ScenarioA ==
    [id |-> "scenario_1", channel |-> "email", recipient_type |-> "recruiter",
     company |-> <<"google">>, target_role |-> "engineer", tone |-> "professional",
     max_words |-> 50, must_include |-> <<"GitHub", "Ask for chat">>, notes |-> ""]
ScenarioB ==
    [id |-> "scenario_2", channel |-> "linkedin_dm", recipient_type |-> "founder",
     company |-> <<"acme">>, target_role |-> "analyst", tone |-> "professional",
     max_words |-> 51, must_include |-> <<>>, notes |-> ""]

ScenarioLists == { <<>>, <<ScenarioA>>, <<ScenarioA, ScenarioB>> }

\* completions the model may return
Completion(body, conf) == [body |-> body, word_count_line |-> <<>>, confidence_line |-> conf]

\* 50 words, all required items, nothing invented
ReplyGood == Completion(Txt(<<"hello", "github", "chat">>, 47), <<80>>)
\* 44 words, claims a PhD no approved fact has
ReplyFabricated == Completion(Txt(<<"hello", "phd", "github", "chat">>, 40), <<75>>)
\* 51 words
ReplyLong == Completion(Txt(<<"hello", "github", "chat">>, 48), <<74>>)

Completions == {ReplyGood, ReplyFabricated, ReplyLong}

\* texts of the exceptions the client may raise
ApiErrors == {"Connection error", "The model has been decommissioned"}

\* ------------------------------------------------------------------------
\* src/src/profile_extractor.py: profile texts
\* ------------------------------------------------------------------------

\* A profile text (a field, a line, a quote, the combined text) is the
\* sequence of its whitespace-separated words, written as in the input.

\* the URLs of the vocabulary: the words matching https?://[^\s<>"{}|\\^`\[\]]+
ProfileUrls ==
    {"https://github.com/u", "https://github.com/u/", "https://GitHub.com/U",
     "https://me.app", "https://me.app/", "https://u.github.io",
     "https://linkedin.com/in/u", "https://linkedin.com/company/z"}

\* len(word)
CharLen(w) ==
    CASE w \in {"I"} -> 1
      [] w \in {"in", "at", "My", "is", "of"} -> 2
      [] w \in {"NYU", "nyu", "Won", "won", "the", "..."} -> 3
      [] w \in {"from", "2026", "best", "here"} -> 4
      [] w \in {"lorem", "paper", "award", "Built", "click", "link:"} -> 5
      [] w \in {"GitHub"} -> 6
      [] w \in {"NeurIPS", "github:", "awards:", "Profile"} -> 7
      [] w \in {"LinkedIn", "profile:"} -> 8
      [] w \in {"Graduated", "graduated", "linkedin:"} -> 9
      [] w \in {"portfolio:", "education:"} -> 10
      [] w \in {"https://me.app"} -> 14
      [] w \in {"https://me.app/"} -> 15
      [] w \in {"https://u.github.io"} -> 19
      [] w \in {"https://github.com/u", "https://GitHub.com/U"} -> 20
      [] w \in {"https://github.com/u/"} -> 21
      [] w \in {"https://linkedin.com/in/u"} -> 25
      [] w \in {"https://linkedin.com/company/z"} -> 30

RECURSIVE CharsOf(_)
\* len(text): the words and one separator between neighbours
CharsOf(words) ==
    IF words = <<>> THEN 0
    ELSE IF Len(words) = 1 THEN CharLen(words[1])
    ELSE CharLen(Head(words)) + 1 + CharsOf(Tail(words))

\* url.rstrip('/')
RStripSlash(u) ==
    CASE u = "https://github.com/u/" -> "https://github.com/u"
      [] u = "https://me.app/" -> "https://me.app"
      [] OTHER -> u

\* the lower-cased words of the vocabulary that begin with the lower-cased
\* word w (a quote may stop inside the last word it covers)
StartsWith(w) ==
    CASE w = "https://github.com/u" -> {"https://github.com/u", "https://github.com/u/"}
      [] w = "https://me.app" -> {"https://me.app", "https://me.app/"}
      [] OTHER -> {w}

\* quote.lower() in source.lower(): the words of the quote occur
\* consecutively in the source, the last one possibly cut short
QuoteIn(quote, source) ==
    LET q == LowerText(quote)
        s == LowerText(source)
    IN \E i \in 1..Len(s) :
          /\ i + Len(q) - 1 <= Len(s)
          /\ \A k \in 1..Len(q) :
                IF k = Len(q) THEN s[i + k - 1] \in StartsWith(q[k])
                ELSE s[i + k - 1] = q[k]

\* re.findall(url_pattern, text)
FindUrls(words) == SeqFilter(words, ProfileUrls)

\* the key a URL is deduplicated by
url_normalized_keeping_slash(u) == LowerWord(u)

\* url.rstrip('/').lower()
url_normalized(u) == LowerWord(RStripSlash(u))

\* the fact text chosen for a URL, <<>> when none is
link_fact_text(u) ==
    LET url_lower == LowerWord(u)
    IN IF url_lower \in {"https://github.com/u", "https://github.com/u/"}
         THEN <<"GitHub", "profile:", u>>
       ELSE IF url_lower = "https://linkedin.com/in/u"
         THEN <<"LinkedIn", "profile:", u>>
       ELSE IF url_lower = "https://u.github.io"
         THEN <<"Profile", "link:", u>>
       ELSE IF url_lower \notin {"https://linkedin.com/company/z"}
         THEN <<"Profile", "link:", u>>
       ELSE <<>>

\* one deterministic link fact
link_fact(u) ==
    [fact |-> link_fact_text(u), category |-> "links", evidence |-> <<u>>,
     confidence |-> 95]

RECURSIVE link_facts_from(_, _)
\* the loop over the URLs found, with the normalized URLs seen so far
link_facts_from(urls, seen_urls) ==
    IF urls = <<>> THEN <<>>
    ELSE IF url_normalized(Head(urls)) \in seen_urls
      THEN link_facts_from(Tail(urls), seen_urls)
    ELSE (IF link_fact_text(Head(urls)) # <<>> THEN <<link_fact(Head(urls))>> ELSE <<>>)
         \o link_facts_from(Tail(urls), seen_urls \cup {url_normalized(Head(urls))})

extract_links_from_text(combined_text) == link_facts_from(FindUrls(combined_text), {})

\* ------------------------------------------------------------------------
\* src/src/profile_extractor.py: sanitize_profile_text, is_complete_fact
\* ------------------------------------------------------------------------

\* words made of letters only ([a-z]+ under re.IGNORECASE)
LetterWords ==
    {"I", "in", "at", "My", "is", "of", "NYU", "nyu", "Won", "won", "the", "from",
     "best", "here", "lorem", "paper", "award", "Built", "click", "GitHub",
     "NeurIPS", "Profile", "LinkedIn", "Graduated", "graduated"}

\* words beginning with a capital letter
CapitalizedWords ==
    {"I", "My", "NYU", "Won", "Built", "GitHub", "NeurIPS", "Profile", "LinkedIn",
     "Graduated"}

\* (that|across|and|or|the|a|an)
ConnectorWords == {"that", "across", "and", "or", "the", "a", "an"}

\* the single-word navigation/UI patterns, and the two-word ones (the
\* vocabulary has no count of likes, comments or followers)
UiWords == {"expand", "collapse", "click", "..."}
UiPhrases == {<<"see", "more">>, <<"show", "all">>, <<"view", "all">>}

\* [a-z]{1,2}: one or two lower-case letters
ShortLowerWords == {"in", "at", "is", "of"}

\* \d{1,2}[/-]\d{1,2}[/-]\d{2,4}
TimestampWords == {"01/02/2026"}

\* the words of phrase occur consecutively in words
HasWords(words, phrase) ==
    \E i \in 1..Len(words) :
        /\ i + Len(phrase) - 1 <= Len(words)
        /\ \A k \in 1..Len(phrase) : LowerWord(words[i + k - 1]) = phrase[k]

\* whether the loop of sanitize_profile_text keeps a line, before the
\* duplicate test
LineSurvives(line) ==
    /\ Len(line) >= 5
    /\ ~(line[1] \in LetterWords /\ LowerWord(line[2]) \in ConnectorWords)
    /\ \A i \in 1..Len(line) : LowerWord(line[i]) \notin UiWords
    /\ \A ph \in UiPhrases : ~HasWords(line, ph)
    /\ line[Len(line)] \notin ShortLowerWords

RECURSIVE cleaned_lines_from(_, _)
\* the loop over the lines, with the lower-cased lines seen so far
cleaned_lines_from(lines, seen) ==
    IF lines = <<>> THEN <<>>
    ELSE IF ~LineSurvives(Head(lines)) \/ LowerText(Head(lines)) \in seen
      THEN cleaned_lines_from(Tail(lines), seen)
    ELSE (IF \E i \in 1..Len(Head(lines)) : Head(lines)[i] \in TimestampWords
            THEN <<>> ELSE Head(lines))
         \o cleaned_lines_from(Tail(lines), seen \cup {LowerText(Head(lines))})

\* the kept lines joined by single spaces
sanitize_profile_text(lines) == cleaned_lines_from(lines, {})

\* the resume verbs: lower-cased words that contain one of them
VerbWords == {"graduated", "built", "won"}
\* award verbs and award nouns likewise
AwardVerbWords == {"won"}
AwardNounWords == {"award"}
\* the award keywords that open the awards branch
AwardKeywordWords == {"award"}
\* link keywords accepted for the links category
LinkKeywordWords ==
    {"github", "github:", "linkedin", "linkedin:", "portfolio:", "profile", "profile:"}
    \cup {LowerWord(u) : u \in ProfileUrls \ {"https://me.app", "https://me.app/"}}
\* (at|as|in|for|with|from|to)
PrepositionWords == {"at", "as", "in", "for", "with", "from", "to"}

\* len([w for w in words if len(w) <= 2]) / word_count <= 0.5
ShortWordRatioOk(words) ==
    2 * Cardinality({i \in 1..Len(words) : CharLen(words[i]) <= 2}) <= Len(words)

\* one of the resume patterns matches the fact: a preposition before a
\* capitalized word, or a URL (the vocabulary has no duration, degree or
\* grade word)
has_resume_pattern(words) ==
    \/ \E i \in 1..(Len(words) - 1) :
          words[i] \in PrepositionWords /\ words[i + 1] \in CapitalizedWords
    \/ \E i \in 1..Len(words) : words[i] \in ProfileUrls

\* a word of the fact, lower-cased, is one of the given words
AnyWordIn(words, given) == \E i \in 1..Len(words) : LowerWord(words[i]) \in given

is_complete_fact(words, cat) ==
    LET word_count == Len(words)
        has_verb == AnyWordIn(words, VerbWords)
        ellipsis == AnyWordIn(words, {"..."})
        fragment == /\ word_count = 3
                    /\ words[1] \in LetterWords \cup {"2026"}
                    /\ LowerWord(words[2]) \in ConnectorWords
                    /\ words[3] \in LetterWords \cup {"2026"}
    IN IF words = <<>> THEN FALSE
       ELSE IF cat = "links" /\ (AnyWordIn(words, ProfileUrls) \/ AnyWordIn(words, LinkKeywordWords))
         THEN TRUE
       ELSE IF /\ (cat = "awards" \/ AnyWordIn(words, AwardKeywordWords))
               /\ AnyWordIn(words, AwardVerbWords)
               /\ AnyWordIn(words, AwardNounWords)
               /\ word_count >= 6
               /\ ~ellipsis
               /\ ShortWordRatioOk(words)
         THEN TRUE
       ELSE IF ~(has_verb \/ has_resume_pattern(words)) /\ word_count < 5 THEN FALSE
       ELSE IF ellipsis THEN FALSE
       ELSE IF fragment THEN FALSE
       ELSE IF ~ShortWordRatioOk(words) THEN FALSE
       ELSE has_verb \/ has_resume_pattern(words)

\* ------------------------------------------------------------------------
\* src/src/profile_extractor.py: extract_candidate_facts
\* ------------------------------------------------------------------------

\* A profile input is [structured_fields, unstructured_text, links]: a list
\* of <<key, value>> pairs, a list of lines, a list of <<link_type, url>>
\* pairs.  The word "key:" of a part is written KeyWord(key).
KeyWord(key) ==
    CASE key = "github" -> "github:"
      [] key = "linkedin" -> "linkedin:"
      [] key = "portfolio" -> "portfolio:"
      [] key = "education" -> "education:"
      [] key = "awards" -> "awards:"

RECURSIVE PartsOfPairs(_)
\* f"{key}: {value}" for every pair with a non-empty value
PartsOfPairs(pairs) ==
    IF pairs = <<>> THEN <<>>
    ELSE (IF Head(pairs)[2] # <<>> THEN << <<KeyWord(Head(pairs)[1])>> \o Head(pairs)[2] >>
          ELSE <<>>)
         \o PartsOfPairs(Tail(pairs))

\* all_text_parts
all_text_parts_of(profile) ==
    PartsOfPairs(profile.structured_fields)
    \o (IF sanitize_profile_text(profile.unstructured_text) # <<>>
          THEN << sanitize_profile_text(profile.unstructured_text) >> ELSE <<>>)
    \o PartsOfPairs([i \in 1..Len(profile.links) |->
                        <<profile.links[i][1], <<profile.links[i][2]>> >>])

RECURSIVE FlattenParts(_)
FlattenParts(parts) == IF parts = <<>> THEN <<>> ELSE Head(parts) \o FlattenParts(Tail(parts))

\* "\n\n".join(all_text_parts), as words
combined_text_of(profile) == FlattenParts(all_text_parts_of(profile))

RECURSIVE JoinedChars(_, _)
\* len(sep.join(parts)) for a separator of sep characters
JoinedChars(parts, sep) ==
    IF parts = <<>> THEN 0
    ELSE IF Len(parts) = 1 THEN CharsOf(parts[1])
    ELSE CharsOf(Head(parts)) + sep + JoinedChars(Tail(parts), sep)

\* structured / semi_structured / messy_unstructured
parse_quality_of(profile) ==
    LET has_structured == profile.structured_fields # <<>>
        has_unstructured == JoinedChars(profile.unstructured_text, 1) > 50
    IN IF has_structured /\ ~has_unstructured THEN "structured"
       ELSE IF has_structured /\ has_unstructured THEN "semi_structured"
       ELSE "messy_unstructured"

\* the normalized URLs found in the fact texts and evidence of the raw facts
llm_urls_of(raw_facts) ==
    {url_normalized(u) :
        u \in UNION {Range(FindUrls(raw_facts[i].fact \o raw_facts[i].evidence))
                       : i \in 1..Len(raw_facts)}}

\* the deterministic link facts whose URL no raw fact mentions
merged_link_facts_of(raw_facts, deterministic_link_facts) ==
    LET kept == {lf \in Range(deterministic_link_facts) :
                    url_normalized(lf.evidence[1]) \notin llm_urls_of(raw_facts)}
    IN SeqFilter(deterministic_link_facts, kept)

MaxEvidenceChars == 160
TruncatedChars == 157
MinFactChars == 10
MinConfidence == 50
MaxFactConfidence == 95
MinCombinedChars == 20

RECURSIVE PrefixWithin(_, _)
\* the leading words of a text that fit whole within n characters
PrefixWithin(words, n) ==
    IF words = <<>> \/ CharLen(Head(words)) > n THEN <<>>
    ELSE <<Head(words)>> \o PrefixWithin(Tail(words), n - CharLen(Head(words)) - 1)

\* evidence[:157] + "...": the words that fit whole, then what is left of
\* the cut word run together with the three dots
truncate_evidence(words) == PrefixWithin(words, TruncatedChars) \o <<"...">>

\* the evidence stored with an accepted fact
clip_evidence(words) ==
    IF CharsOf(words) > MaxEvidenceChars THEN truncate_evidence(words) ELSE words

ValidCategories ==
    {"education", "work", "impact", "skills", "projects", "awards", "links",
     "location", "other"}

\* the text of a raw fact after award-subject normalization
normalized_fact_text(fact_data) ==
    IF fact_data.category = "awards" /\ fact_data.fact # <<>>
       /\ LowerWord(fact_data.fact[1]) = "won"
      THEN <<"I">> \o fact_data.fact
    ELSE fact_data.fact

\* original_evidence if original_evidence else fact_text
evidence_of(fact_data) ==
    IF fact_data.evidence # <<>> THEN fact_data.evidence ELSE fact_data.fact

\* the rejection reasons of one raw fact, given the facts accepted before it
rejection_reasons(fact_data, combined_text, seen_facts) ==
    (IF fact_data.confidence < MinConfidence THEN <<"confidence_below_0.50">> ELSE <<>>)
    \o (IF CharsOf(normalized_fact_text(fact_data)) < MinFactChars
          THEN <<"fact_too_short">> ELSE <<>>)
    \o (IF evidence_of(fact_data) # <<>> /\ ~QuoteIn(evidence_of(fact_data), combined_text)
          THEN <<"evidence_not_substring_match">> ELSE <<>>)
    \o (IF ~is_complete_fact(normalized_fact_text(fact_data), fact_data.category)
          THEN <<"is_complete_fact_check_failed">> ELSE <<>>)
    \o (IF LowerText(normalized_fact_text(fact_data)) \in seen_facts
          THEN <<"duplicate_fact">> ELSE <<>>)

\* the dictionary stored for an accepted fact
accepted_item(fact_data, position) ==
    [fact |-> normalized_fact_text(fact_data),
     category |-> IF fact_data.category \in ValidCategories THEN fact_data.category
                  ELSE "other",
     evidence |-> clip_evidence(evidence_of(fact_data)),
     confidence |-> Min2(fact_data.confidence, MaxFactConfidence),
     original_index |-> position,
     original_evidence |-> fact_data.evidence]

RECURSIVE validated_facts_from(_, _, _, _)
\* the validation loop from raw fact number position on
validated_facts_from(raw_facts, position, combined_text, seen_facts) ==
    IF position > Len(raw_facts) THEN <<>>
    ELSE IF rejection_reasons(raw_facts[position], combined_text, seen_facts) # <<>>
      THEN validated_facts_from(raw_facts, position + 1, combined_text, seen_facts)
    ELSE <<accepted_item(raw_facts[position], position - 1)>>
         \o validated_facts_from(raw_facts, position + 1, combined_text,
               seen_facts \cup {LowerText(normalized_fact_text(raw_facts[position]))})

\* the result dictionary of extract_candidate_facts
extraction_result(quality, facts_found, warnings_) ==
    [stage |-> 1, profile_parse_quality |-> quality, candidate_facts |-> facts_found,
     warnings |-> warnings_]

\* except Exception as e: candidate_facts is still the empty list it was
\* initialised to; the deterministic link facts were never added to it
extraction_failed(quality, deterministic_link_facts, error) ==
    extraction_result(quality, <<>>, << <<"Extraction error: ", error>> >>)

\* The completion is what the API call does: it raises, it returns text that
\* is not JSON, or it returns a JSON object with a candidate_facts list.
\* The name DEBUG_STAGE1 is assigned further down the function (line 478),
\* so it is a local name, unbound where line 457 reads it: with show_debug
\* false the read raises inside the try block.
extract_candidate_facts(profile, show_debug, completion) ==
    LET quality == parse_quality_of(profile)
        combined_text == combined_text_of(profile)
        deterministic_link_facts == extract_links_from_text(combined_text)
        raw_candidate_facts == completion.candidate_facts
        merged_candidate_facts ==
            raw_candidate_facts
            \o merged_link_facts_of(raw_candidate_facts, deterministic_link_facts)
        validated_facts == validated_facts_from(merged_candidate_facts, 1, combined_text, {})
    IN IF JoinedChars(all_text_parts_of(profile), 2) < MinCombinedChars
         THEN extraction_result(quality, <<>>,
                                << <<"No meaningful profile content found">> >>)
       ELSE IF completion.kind = "raises"
         THEN extraction_failed(quality, deterministic_link_facts, completion.error)
       ELSE IF completion.kind = "malformed"
         THEN extraction_failed(quality, deterministic_link_facts, "JSONDecodeError")
       ELSE IF ~show_debug
         THEN extraction_failed(quality, deterministic_link_facts, "UnboundLocalError")
       ELSE extraction_result(quality, validated_facts,
                IF validated_facts = <<>>
                  THEN << <<"No valid facts extracted. Input may be too fragmented or incomplete.">> >>
                ELSE <<>>)

\* ------------------------------------------------------------------------
\* src/src/high_stakes.py, src/src/high_stakes_enforcement.py
\* A fact text and a message are sequences of words as written.
\* ------------------------------------------------------------------------

\* the keywords of the keyword lists of both files that occur in a word,
\* lower-cased (kw in fact_lower)
KeywordsIn(w) ==
    CASE w = "Published" -> {"published"}
      [] w = "research" -> {"research"}
      [] w = "paper" -> {"paper"}
      [] w = "NeurIPS" -> {"neurips"}
      [] w = "Won" -> {"won"}
      [] w = "ACM" -> {"acm"}
      [] w = "Award" -> {"award"}
      [] w = "PhD" -> {"phd"}
      [] w = "MIT" -> {"mit"}
      [] w = "Google" -> {"google"}
      [] w = "published" -> {"published"}
      [] w = "won" -> {"won"}
      [] w = "award" -> {"award"}
      [] w = "Has" -> {"has"}
      [] w = "reported" -> {"reported"}
      [] w = "reported:" -> {"reported"}
      [] w = "NeurIPS;" -> {"neurips"}
      [] w = "ICML;" -> {"icml"}
      [] w = "CVPR;" -> {"cvpr"}
      [] w = "ACL;" -> {"acl"}
      [] w = "verification" -> {"verification"}
      [] w = "link" -> {"link"}
      [] w = "not" -> {"not"}
      [] w = "provided." -> {"provided"}
      [] w = "MIT;" -> {"mit"}
      [] OTHER -> {}

\* the first run of word characters of a word, lower-cased: what a pattern
\* between \b marks is compared with
BareWord(w) ==
    CASE w = "Published" -> "published"
      [] w = "NeurIPS" -> "neurips"
      [] w = "Won" -> "won"
      [] w = "ACM" -> "acm"
      [] w = "Award" -> "award"
      [] w = "PhD" -> "phd"
      [] w = "Computer" -> "computer"
      [] w = "Science" -> "science"
      [] w = "MIT" -> "mit"
      [] w = "Worked" -> "worked"
      [] w = "Google" -> "google"
      [] w = "Built" -> "built"
      [] w = "Graduated" -> "graduated"
      [] w = "NYU" -> "nyu"
      [] w = "I" -> "i"
      [] w = "LLM" -> "llm"
      [] w = "reliability." -> "reliability"
      [] w = "2025." -> "2025"
      [] w = "Has" -> "has"
      [] w = "reported:" -> "reported"
      [] w = "work;" -> "work"
      [] w = "NeurIPS;" -> "neurips"
      [] w = "ICML;" -> "icml"
      [] w = "CVPR;" -> "cvpr"
      [] w = "ACL;" -> "acl"
      [] w = "provided." -> "provided"
      [] w = "claim;" -> "claim"
      [] w = "background;" -> "background"
      [] w = "experience;" -> "experience"
      [] w = ";" -> ""
      [] w = "2025;" -> "2025"
      [] w = "MIT;" -> "mit"
      [] w = "years;" -> "years"
      [] w = "app;" -> "app"
      [] w = "2020;" -> "2020"
      [] OTHER -> w

\* a word followed by a semicolon
Semicolon(w) ==
    CASE w = "2025" -> "2025;"
      [] w = "MIT" -> "MIT;"
      [] w = "years" -> "years;"
      [] w = "app" -> "app;"
      [] w = "2020" -> "2020;"

\* any(kw in fact_lower for kw in keywords)
ContainsAny(words, keywords) ==
    \E i \in 1..Len(words) : KeywordsIn(words[i]) \cap keywords # {}

\* a word of the text matches \b(w1|w2|...)\b
HasBareWord(words, given) == \E i \in 1..Len(words) : BareWord(words[i]) \in given

HighStakesCategories == {"impact", "awards", "education"}
HighStakesKeywords ==
    {"neurips", "icml", "cvpr", "acl", "emnlp", "nips",
     "openai", "google", "meta", "amazon", "microsoft", "apple",
     "harvard", "mit", "stanford", "phd", "ieee", "acm", "nasa"}

is_high_stakes(fact_text, category) ==
    /\ fact_text # <<>>
    /\ \/ LowerWord(category) \in HighStakesCategories
       \/ ContainsAny(fact_text, HighStakesKeywords)

\* "; verification link not provided."
CautiousTail == <<"verification", "link", "not", "provided.">>

\* f"{fact_text};"
WithSemicolon(words) ==
    IF words = <<>> THEN <<";">>
    ELSE SubSeq(words, 1, Len(words) - 1) \o <<Semicolon(words[Len(words)])>>

\* the venue named in the cautious text of a publication
venue_of(fact_text) ==
    IF ContainsAny(fact_text, {"neurips"}) THEN "NeurIPS;"
    ELSE IF ContainsAny(fact_text, {"icml"}) THEN "ICML;"
    ELSE IF ContainsAny(fact_text, {"cvpr"}) THEN "CVPR;"
    ELSE "ACL;"

convert_to_cautious_phrasing(fact_text, category) ==
    LET category_lower == LowerWord(category)
    IN IF \/ category_lower \in {"impact", "publications", "research"}
          \/ ContainsAny(fact_text, {"published", "paper", "publication", "research"})
         THEN IF ContainsAny(fact_text, {"neurips", "icml", "cvpr", "acl"})
                THEN <<"Has", "reported", "research", "work", "related", "to",
                       venue_of(fact_text)>> \o CautiousTail
                ELSE <<"Has", "reported", "research", "work;">> \o CautiousTail
       ELSE IF \/ category_lower = "awards"
               \/ ContainsAny(fact_text, {"won", "award", "prize", "honor"})
         THEN <<"Has", "reported", "an", "award", "claim;">> \o CautiousTail
       ELSE IF \/ category_lower = "education"
               \/ ContainsAny(fact_text, {"phd", "doctorate", "harvard", "mit", "stanford"})
         THEN IF ContainsAny(fact_text, {"phd", "doctorate"})
                THEN <<"Has", "reported">> \o WithSemicolon(fact_text) \o CautiousTail
                ELSE <<"Has", "reported", "educational", "background;">> \o CautiousTail
       ELSE IF /\ category_lower = "work"
               /\ ContainsAny(fact_text, {"openai", "google", "meta", "microsoft", "apple", "amazon"})
         THEN <<"Has", "reported", "work", "experience;">> \o CautiousTail
       ELSE <<"Has", "reported:">> \o WithSemicolon(fact_text) \o CautiousTail

\* d.get(key, default) for a dictionary written as a function
Get(d, key, default) == IF key \in DOMAIN d THEN d[key] ELSE default

\* the stats dictionary before any fact is counted
InitialStats(total) ==
    [total_facts |-> total, high_stakes_count |-> 0, verified_count |-> 0,
     unverified_count |-> 0, converted_count |-> 0, excluded_count |-> 0]

\* An element of a list of facts is a string, [fmt |-> "str", text], or a
\* dictionary, [fmt |-> "dict", dict].
StrFact(t) == [fmt |-> "str", text |-> t]
DictFact(d) == [fmt |-> "dict", dict |-> d]

\* What the loop body reads from one fact: its text, its category, whether
\* it is high-stakes, and its verification status.
fact_reading(fact, high_stakes_metadata) ==
    IF fact.fmt = "dict"
      THEN LET fact_text == Get(fact.dict, "value", Get(fact.dict, "fact", <<>>))
               fact_category == Get(fact.dict, "category", "other")
           IN [fact_text |-> fact_text,
               fact_category |-> fact_category,
               is_high |-> \/ Get(fact.dict, "trust_flag", None) = "high_stakes"
                           \/ is_high_stakes(fact_text, fact_category),
               verification_status |-> Get(fact.dict, "verification_status", "unverified")]
      ELSE LET metadata == Get(high_stakes_metadata, fact.text, <<>>)
           IN [fact_text |-> fact.text,
               fact_category |-> "other",
               is_high |-> \/ is_high_stakes(fact.text, "other")
                           \/ "verification_status" \in DOMAIN metadata,
               verification_status |-> Get(metadata, "verification_status", "unverified")]

\* the record appended to conversion_log
conversion_entry(fact_text, cautious_version, fact_category) ==
    [original |-> fact_text, converted |-> cautious_version,
     reason |-> "unverified_high_stakes", category |-> fact_category]

\* the loop body passing every high-stakes fact on as if it were verified
preprocess_step_trusting(fact, high_stakes_metadata, built) ==
    LET r == fact_reading(fact, high_stakes_metadata)
    IN [built EXCEPT !.original_facts = Append(@, StrFact(r.fact_text)),
                     !.facts_for_generation = Append(@, StrFact(r.fact_text)),
                     !.stats.high_stakes_count = IF r.is_high THEN @ + 1 ELSE @,
                     !.stats.verified_count = IF r.is_high THEN @ + 1 ELSE @]

\* the loop body leaving unverified high-stakes facts out of the result
preprocess_step_excluding(fact, high_stakes_metadata, built) ==
    LET r == fact_reading(fact, high_stakes_metadata)
        listed == [built EXCEPT !.original_facts = Append(@, StrFact(r.fact_text))]
    IN IF r.is_high /\ r.verification_status # "verified"
         THEN [listed EXCEPT !.stats.high_stakes_count = @ + 1,
                             !.stats.unverified_count = @ + 1,
                             !.stats.excluded_count = @ + 1]
       ELSE IF r.is_high
         THEN [listed EXCEPT !.stats.high_stakes_count = @ + 1,
                             !.stats.verified_count = @ + 1,
                             !.facts_for_generation = Append(@, StrFact(r.fact_text))]
       ELSE [listed EXCEPT !.facts_for_generation = Append(@, StrFact(r.fact_text))]

\* one pass of the loop body over the result built so far
preprocess_step(fact, high_stakes_metadata, built) ==
    LET r == fact_reading(fact, high_stakes_metadata)
        cautious_version == convert_to_cautious_phrasing(r.fact_text, r.fact_category)
        listed == [built EXCEPT !.original_facts = Append(@, StrFact(r.fact_text))]
    IN IF r.is_high /\ r.verification_status = "verified"
         THEN [listed EXCEPT !.stats.high_stakes_count = @ + 1,
                             !.stats.verified_count = @ + 1,
                             !.facts_for_generation = Append(@, StrFact(r.fact_text))]
       ELSE IF r.is_high
         THEN [listed EXCEPT !.stats.high_stakes_count = @ + 1,
                             !.stats.unverified_count = @ + 1,
                             !.stats.converted_count = @ + 1,
                             !.facts_for_generation = Append(@, StrFact(cautious_version)),
                             !.conversion_log =
                                 Append(@, conversion_entry(r.fact_text, cautious_version,
                                                            r.fact_category))]
       ELSE [listed EXCEPT !.facts_for_generation = Append(@, StrFact(r.fact_text))]

RECURSIVE preprocess_loop(_, _, _)
\* for fact in approved_facts
preprocess_loop(remaining, high_stakes_metadata, built) ==
    IF remaining = <<>> THEN built
    ELSE preprocess_loop(Tail(remaining), high_stakes_metadata,
                         preprocess_step(Head(remaining), high_stakes_metadata, built))

\* the function running its loop whatever the switch and the metadata are
preprocess_facts_always_enforcing(approved, high_stakes_metadata, enforce_high_stakes_language) ==
    preprocess_loop(approved, high_stakes_metadata.entries,
                    [facts_for_generation |-> <<>>, original_facts |-> <<>>,
                     conversion_log |-> <<>>, stats |-> InitialStats(Len(approved))])

\* The metadata argument is [given, entries]: None is given = FALSE, a
\* dictionary is given = TRUE with entries a function from fact texts.
preprocess_facts_for_generation(approved, high_stakes_metadata, enforce_high_stakes_language) ==
    IF \/ ~enforce_high_stakes_language
       \/ ~high_stakes_metadata.given
       \/ DOMAIN high_stakes_metadata.entries = {}
      THEN [facts_for_generation |-> approved,
            original_facts |-> approved,
            conversion_log |-> <<>>,
            stats |-> InitialStats(Len(approved))]
      ELSE preprocess_loop(approved, high_stakes_metadata.entries,
                           [facts_for_generation |-> <<>>,
                            original_facts |-> <<>>,
                            conversion_log |-> <<>>,
                            stats |-> InitialStats(Len(approved))])

\* one of the definite publication patterns matches the message
definite_publication(message) ==
    \/ HasBareWord(message, {"published"})
    \/ \E ph \in {<<"my", "paper">>, <<"accepted", "at">>, <<"presented", "at">>} :
          HasWords(message, ph)
    \/ \E i \in 1..(Len(message) - 2) :
          /\ LowerWord(message[i]) \in {"paper", "publication"}
          /\ LowerWord(message[i + 1]) \in {"at", "in", "for"}

\* the definite award pattern matches the message
definite_award(message) ==
    HasBareWord(message, {"won", "received", "awarded", "prize", "honor"})

\* one of the definite education patterns matches the message
definite_education(message) ==
    \/ \E i \in 1..(Len(message) - 1) :
          /\ LowerWord(message[i]) \in {"phd", "doctorate"}
          /\ BareWord(message[i + 1]) \in {"from", "at", "in"}
    \/ \E i \in 1..(Len(message) - 2) :
          /\ LowerWord(message[i]) \in {"graduated", "studied"}
          /\ LowerWord(message[i + 1]) \in {"from", "at"}
          /\ BareWord(message[i + 2]) \in {"harvard", "mit", "stanford"}

\* any(marker in message_lower for marker in cautious_markers)
has_cautious_marker(message) ==
    \/ ContainsAny(message, {"reported", "verification"})
    \/ \E i \in 1..(Len(message) - 2) :
          /\ "link" \in KeywordsIn(message[i])
          /\ LowerWord(message[i + 1]) = "not"
          /\ "provided" \in KeywordsIn(message[i + 2])

\* the violations one conversion record adds, in the order of the checks
violations_of(message, conversion) ==
    LET original == conversion.original
        category == Get(conversion, "category", "other")
        original_keywords == Range(LowerText(original))
        message_words == Range(LowerText(message))
        overlap == Cardinality(original_keywords \cap message_words)
    IN (IF /\ category \in {"impact", "publications", "research"}
           /\ ContainsAny(original, {"neurips", "icml", "cvpr", "acl", "paper", "publication"})
           /\ ContainsAny(message, {"neurips", "icml", "cvpr", "acl"})
           /\ definite_publication(message)
          THEN << <<"Definitive publication claim", original>> >> ELSE <<>>)
       \o (IF /\ category = "awards"
              /\ definite_award(message)
              /\ ContainsAny(message, {"award", "prize", "acm", "ieee"})
             THEN << <<"Definitive award claim", original>> >> ELSE <<>>)
       \o (IF category = "education" /\ definite_education(message)
             THEN << <<"Definitive education claim", original>> >> ELSE <<>>)
       \o (IF /\ ~has_cautious_marker(message)
              /\ 2 * overlap > Cardinality(original_keywords)
              /\ Cardinality(original_keywords) > 3
             THEN << <<"Definitive claim without cautious phrasing", original>> >>
             ELSE <<>>)

RECURSIVE violations_from(_, _)
\* for conversion in conversion_log
violations_from(message, conversion_log) ==
    IF conversion_log = <<>> THEN <<>>
    ELSE violations_of(message, Head(conversion_log))
         \o violations_from(message, Tail(conversion_log))

detect_high_stakes_enforcement_violation(message, conversion_log) ==
    LET violations == violations_from(message, conversion_log)
    IN [violation_detected |-> Len(violations) > 0, violations |-> violations]

\* ------------------------------------------------------------------------
\* src/streamlit_app.py: the fact-confirmation page, with
\* annotate_fact_with_trust (src/src/high_stakes.py) and
\* prepare_approved_facts (src/src/profile_extractor.py).
\* An extracted fact is [value, category] with value a Txt whose words are
\* value.lead.  The body of the loop over the extracted facts is read as
\* indented under its for statement.
\* ------------------------------------------------------------------------

\* the verification URLs typed: none, blanks only, a URL
VerificationUrls == {"", "  ", "https://me.app"}

\* not verification_url or not verification_url.strip()
IsBlankUrl(url) == url \in {"", "  "}

\* annotate_fact_with_trust: the trust flag given to a fact
trust_flag_of(fact, enable_high_stakes) ==
    IF ~enable_high_stakes THEN "normal"
    ELSE IF is_high_stakes(fact.value.lead, fact.category) THEN "high_stakes"
    ELSE "normal"

\* high_stakes_verification[verification_key] once the row is rendered: a
\* 'verified' selection is kept only with a URL that is not blank
stored_status_trusting(widget) == widget.verification_status
stored_status(widget) ==
    IF widget.verification_status = "verified" /\ IsBlankUrl(widget.verification_url)
      THEN "unverified"
      ELSE widget.verification_status

\* high_stakes_urls[url_key] once the row is rendered: cleared when the
\* selection is not 'verified'
stored_url(widget) ==
    IF widget.verification_status = "verified" THEN widget.verification_url ELSE ""

\* the warning "Verification URL required to mark as verified" is shown
url_required_warning(fact, widget, enable_high_stakes) ==
    /\ trust_flag_of(fact, enable_high_stakes) = "high_stakes"
    /\ widget.verification_status = "verified"
    /\ IsBlankUrl(widget.verification_url)

\* what one row of the page appends to the page's list approved_facts: a
\* value, or a dictionary with the verification metadata
approved_entry(fact, widget, enable_high_stakes) ==
    IF ~(widget.approved /\ ~IsEmpty(widget.fact_value)) THEN <<>>
    ELSE IF trust_flag_of(fact, enable_high_stakes) = "high_stakes"
      THEN << [fmt |-> "dict",
               value |-> widget.fact_value,
               trust_flag |-> "high_stakes",
               verification_status |-> stored_status(widget),
               verification_url |-> stored_url(widget)] >>
    ELSE << [fmt |-> "str", value |-> widget.fact_value] >>

RECURSIVE approved_entries(_, _, _)
\* the page's list approved_facts after the loop over the extracted facts
approved_entries(extracted, widgets, enable_high_stakes) ==
    IF extracted = <<>> THEN <<>>
    ELSE approved_entry(Head(extracted), Head(widgets), enable_high_stakes)
         \o approved_entries(Tail(extracted), Tail(widgets), enable_high_stakes)

\* fact.lower()
fact_lower(fact_text) == Txt(LowerText(fact_text.lead), fact_text.pad)

RECURSIVE dedupe_facts(_, _)
\* the first occurrence of every fact, compared lower-cased
dedupe_facts(all_facts, seen) ==
    IF all_facts = <<>> THEN <<>>
    ELSE IF fact_lower(Head(all_facts)) \in seen
      THEN dedupe_facts(Tail(all_facts), seen)
    ELSE <<Head(all_facts)>>
         \o dedupe_facts(Tail(all_facts), seen \cup {fact_lower(Head(all_facts))})

\* prepare_approved_facts(...)["approved_facts_final"]
prepare_approved_facts(approved_values, manual_facts) ==
    dedupe_facts(approved_values \o manual_facts, {})

RECURSIVE high_stakes_metadata_of(_, _)
\* the dictionary stored by Confirm Facts: one entry per extracted fact
\* that is high-stakes, keyed by the fact's text, later facts overriding
high_stakes_metadata_of(extracted, widgets) ==
    IF extracted = <<>> THEN <<>>
    ELSE LET fact == extracted[Len(extracted)]
             widget == widgets[Len(widgets)]
             earlier == high_stakes_metadata_of(SubSeq(extracted, 1, Len(extracted) - 1),
                                                SubSeq(widgets, 1, Len(widgets) - 1))
         IN IF is_high_stakes(fact.value.lead, fact.category)
              THEN (fact.value :> [verification_status |-> stored_status(widget),
                                   verification_url |-> stored_url(widget)]) @@ earlier
              ELSE earlier

\* Confirm Facts: what the handler stores in the session.  The values
\* not among the extracted values are passed on as manual facts.
confirm_facts(extracted, widgets, enable_high_stakes) ==
    LET entries == approved_entries(extracted, widgets, enable_high_stakes)
        approved_facts_values == [i \in 1..Len(entries) |-> entries[i].value]
        extracted_values == {extracted[i].value : i \in 1..Len(extracted)}
        manual_facts_list == SelectSeq(approved_facts_values,
                                       LAMBDA v : v \notin extracted_values)
    IN [page_approved_facts |-> entries,
        approved_facts |-> prepare_approved_facts(approved_facts_values, manual_facts_list),
        high_stakes_metadata |->
            IF enable_high_stakes
              THEN <<high_stakes_metadata_of(extracted, widgets)>>
              ELSE <<>>]

\* ------------------------------------------------------------------------
\* State
\* ------------------------------------------------------------------------

VARIABLES
    stage,               \* st.session_state.stage
    extracted_facts,     \* <<st.session_state.extracted_facts>>, or <<>> while
                         \* the session has no such key
    approved_facts,      \* st.session_state.approved_facts
    scenarios,           \* st.session_state.scenarios
    evaluation_results,  \* st.session_state.evaluation_results
    runs,                \* sidebar slider "Runs per prompt"
    strict_mode,         \* sidebar radio "Mode" = Strict
    pc,                  \* position of the Run Evaluation handler
    all_results,         \* the handler's list of scenario results
    idx,                 \* the handler's scenario index, from 1
    results,             \* evaluate_scenario: the runs collected so far
    run_idx,             \* evaluate_scenario: loop index, from 0
    attempt,             \* generate_message_with_word_limit: loop index, from 0
    overall_metrics,     \* results page: <<compute_overall_metrics(...)>>, or <<>>
    ui_error,            \* the text shown by st.error, or None
    ui_warning,          \* the text shown by st.warning, or None
    fact_states,         \* <<st.session_state.fact_states>>, or <<>> while the
                         \* session has no such key; index idx is kept at idx + 1
    fact_values,         \* st.session_state.fact_values, likewise
    manual_added,        \* history: the facts added with Add Manual Fact on the
                         \* fact-confirmation page since it was opened
    last_call,           \* history: the latest completion call and how it ended
    gen_trace,           \* history: per run of the current scenario, the
                         \* generation error and whether run_all_checks ran
    fn_call,             \* function harness: the call made
    fn_ret               \* function harness: what it returned

pageVars == <<fact_states, fact_values, manual_added>>
sessionVars == <<stage, extracted_facts, approved_facts, scenarios, evaluation_results, runs, strict_mode, pageVars>>
handlerVars == <<pc, all_results, idx, results, run_idx, attempt, overall_metrics, ui_error, ui_warning>>
historyVars == <<last_call, gen_trace>>
fnVars == <<fn_call, fn_ret>>
vars == <<sessionVars, handlerVars, historyVars, fnVars>>

NoCall == [idx |-> 0, run_idx |-> 0, attempt |-> 0, outcome |-> "none", error |-> None]
NoFn == [fn |-> "none"]

\* the handler at rest, no evaluation under way
HandlerIdle ==
    /\ pc = "idle"
    /\ all_results = <<>>
    /\ idx = 0
    /\ results = <<>>
    /\ run_idx = 0
    /\ attempt = 0

\* a new session: the session state as initialised, the sidebar as set
Init ==
    /\ stage = "profile_input"
    /\ extracted_facts = <<>>
    /\ approved_facts = <<>>
    /\ scenarios = <<>>
    /\ evaluation_results = <<>>
    /\ runs \in 1..MaxRuns
    /\ strict_mode \in BOOLEAN
    /\ HandlerIdle
    /\ overall_metrics = <<>>
    /\ ui_error = None
    /\ ui_warning = None
    /\ fact_states = <<>>
    /\ fact_values = <<>>
    /\ manual_added = <<>>
    /\ last_call = NoCall
    /\ gen_trace = <<>>
    /\ fn_call = NoFn
    /\ fn_ret = NoFn

\* ------------------------------------------------------------------------
\* streamlit_app.py: Run Evaluation, with evaluate_scenario and
\* generate_message_with_word_limit inlined.  The handler runs from the
\* click to its end without interleaving; it is cut into steps at its
\* completion calls, whose outcomes are its inputs.
\* ------------------------------------------------------------------------

\* the click: the loops are entered and the first completion call is issued
RunEvaluation ==
    /\ stage = "message_generation"
    /\ pc = "idle"
    /\ approved_facts # <<>>
    /\ scenarios # <<>>
    /\ pc' = "calling"
    /\ all_results' = <<>>
    /\ idx' = 1
    /\ results' = <<>>
    /\ run_idx' = 0
    /\ attempt' = 0
    /\ ui_error' = None
    /\ ui_warning' = None
    /\ last_call' = NoCall
    /\ gen_trace' = <<>>
    /\ UNCHANGED <<sessionVars, overall_metrics, fnVars>>

\* enumeration from the end of the list
scenario_at_reversed(scenario_list, i) == scenario_list[Len(scenario_list) + 1 - i]

\* the scenario evaluated at loop position i (enumerate over the list)
scenario_at(scenario_list, i) == scenario_list[i]

\* generate_message_with_word_limit has returned gen_result for run run_idx:
\* the run is scored and recorded, and the loop over the runs moves on
RecordRun(gen_result) ==
    /\ results' = Append(results,
                         run_record(scenario_at(scenarios, idx), approved_facts,
                                    strict_mode, run_idx, gen_result))
    /\ gen_trace' = Append(gen_trace,
                           [error |-> gen_result.error,
                            validated |-> check_result_of(scenario_at(scenarios, idx),
                                              approved_facts, strict_mode,
                                              gen_result).engine_called])
    /\ attempt' = 0
    /\ IF last_run(run_idx, runs, gen_result)
         THEN pc' = "aggregating" /\ run_idx' = run_idx
         ELSE pc' = "calling" /\ run_idx' = run_idx + 1

\* the pending completion call returns a completion
ApiReturns(response) ==
    /\ pc = "calling"
    /\ LET gen == gen_ok(response)
           max_words == scenario_at(scenarios, idx).max_words
           retry == over_limit_retry(gen.word_count, max_words, attempt)
       IN /\ last_call' = [idx |-> idx, run_idx |-> run_idx, attempt |-> attempt,
                           outcome |-> IF gen.word_count > max_words
                                         THEN "over" ELSE "within",
                           error |-> None]
          /\ IF retry
               THEN /\ attempt' = attempt + 1
                    /\ UNCHANGED <<pc, results, run_idx, gen_trace>>
               ELSE RecordRun(gen)
    /\ UNCHANGED <<sessionVars, all_results, idx, overall_metrics, ui_error, ui_warning,
                   fnVars>>

\* the pending completion call raises an exception with text e
ApiRaises(e) ==
    /\ pc = "calling"
    /\ last_call' = [idx |-> idx, run_idx |-> run_idx, attempt |-> attempt,
                     outcome |-> "raised", error |-> e]
    /\ IF exception_returns(attempt)
         THEN RecordRun(gen_error(e))
         ELSE /\ attempt' = attempt + 1
              /\ UNCHANGED <<pc, results, run_idx, gen_trace>>
    /\ UNCHANGED <<sessionVars, all_results, idx, overall_metrics, ui_error, ui_warning,
                   fnVars>>

\* evaluate_scenario computes its metrics and returns; the handler appends
\* the result and goes to the next scenario, or stores the results and opens
\* the results page
ScenarioReturns ==
    /\ pc = "aggregating"
    /\ LET result == scenario_result(scenario_at(scenarios, idx), results)
           done == Append(all_results, result)
       IN IF idx < Len(scenarios)
            THEN /\ all_results' = done
                 /\ idx' = idx + 1
                 /\ pc' = "calling"
                 /\ results' = <<>>
                 /\ run_idx' = 0
                 /\ attempt' = 0
                 /\ gen_trace' = <<>>
                 /\ UNCHANGED <<stage, evaluation_results>>
            ELSE /\ evaluation_results' = done
                 /\ stage' = "results"
                 /\ pc' = "idle"
                 /\ all_results' = <<>>
                 /\ idx' = 0
                 /\ results' = <<>>
                 /\ run_idx' = 0
                 /\ attempt' = 0
                 /\ gen_trace' = <<>>
    /\ UNCHANGED <<extracted_facts, approved_facts, scenarios, runs, strict_mode,
                   overall_metrics, ui_error, ui_warning, last_call, pageVars, fnVars>>

\* the results page is rendered
ShowResults ==
    /\ stage = "results"
    /\ pc = "idle"
    /\ overall_metrics = <<>>
    /\ IF evaluation_results = <<>>
         THEN ui_error' = "No results available." /\ UNCHANGED overall_metrics
         ELSE /\ overall_metrics' = <<compute_overall_metrics(evaluation_results)>>
              /\ UNCHANGED ui_error
    /\ UNCHANGED <<sessionVars, pc, all_results, idx, results, run_idx, attempt,
                   ui_warning, historyVars, fnVars>>

\* ------------------------------------------------------------------------
\* streamlit_app.py: the pages before and after the evaluation.  Every
\* handler below ends in st.rerun(), which clears what st.error showed.
\* ------------------------------------------------------------------------

\* the facts an extraction stores: none, or the facts of the session
ExtractionsTried == { <<>>, SessionExtracted }

\* how a submission of the profile ends: the facts are stored and the
\* fact-confirmation page opens (at once, or by Continue to Fact
\* Confirmation under the debug output); the facts are stored and the debug
\* output is left without continuing; the extraction raises
ExtractionOutcomes == {"advance", "debug", "raise"}

\* a dictionary of the session, or the empty one while the key is absent
held_of(option) == IF option = <<>> THEN <<>> ELSE option[1]

\* fact_states once the rows of the page are rendered: created with True
\* for every row if absent; every row then stores its checkbox, whose value
\* is fact_states.get(idx, True)
rendered_states(extracted, states) ==
    LET held == held_of(states)
    IN [i \in 1..Max2(Len(extracted), Len(held)) |->
            IF i <= Len(held) THEN held[i] ELSE TRUE]

\* fact_values once the rows of the page are rendered: every row stores
\* its text field, whose value is fact_values.get(idx, fact.get("value", ""))
rendered_values(extracted, values) ==
    LET held == held_of(values)
    IN [i \in 1..Max2(Len(extracted), Len(held)) |->
            IF i <= Len(held) THEN held[i] ELSE extracted[i].value]

\* the fact-confirmation page is rendered for the extracted facts stored:
\* the rows exist only under a non-empty list
ConfirmationPageOpens(stored) ==
    /\ IF stored = <<>> \/ stored = << <<>> >>
         THEN UNCHANGED <<fact_states, fact_values>>
         ELSE /\ fact_states' = <<rendered_states(stored[1], fact_states)>>
              /\ fact_values' = <<rendered_values(stored[1], fact_values)>>
    /\ manual_added' = <<>>

\* the rows of the fact-confirmation page are on the screen
RowsShown ==
    /\ stage = "fact_confirmation"
    /\ pc = "idle"
    /\ extracted_facts # <<>>
    /\ extracted_facts[1] # <<>>

\* Extract Facts, Submit Profile or a JSON upload on the profile page; the
\* rerun that follows renders the page the stage names
ExtractFacts(found, outcome) ==
    /\ stage = "profile_input"
    /\ pc = "idle"
    /\ CASE outcome = "advance" ->
              /\ extracted_facts' = <<found>>
              /\ stage' = "fact_confirmation"
              /\ ui_error' = None
              /\ ConfirmationPageOpens(<<found>>)
         [] outcome = "debug" ->
              /\ extracted_facts' = <<found>>
              /\ ui_error' = None
              /\ UNCHANGED <<stage, pageVars>>
         [] outcome = "raise" ->
              /\ ui_error' = "Extraction error"
              /\ UNCHANGED <<stage, extracted_facts, pageVars>>
    /\ ui_warning' = None
    /\ UNCHANGED <<approved_facts, scenarios, evaluation_results, runs, strict_mode,
                   pc, all_results, idx, results, run_idx, attempt, overall_metrics,
                   historyVars, fnVars>>

\* Back to Profile Input: one of the three buttons of the fact-confirmation
\* page, whichever branch of the page is rendered
BackToProfileInput ==
    /\ stage = "fact_confirmation"
    /\ pc = "idle"
    /\ stage' = "profile_input"
    /\ ui_error' = None
    /\ ui_warning' = None
    /\ manual_added' = <<>>
    /\ UNCHANGED <<extracted_facts, approved_facts, scenarios, evaluation_results, runs,
                   strict_mode, fact_states, fact_values, pc, all_results, idx, results,
                   run_idx, attempt, overall_metrics, historyVars, fnVars>>

\* the Approve checkbox of row i (idx = i - 1) is set to b
SetApproval(i, b) ==
    /\ RowsShown
    /\ i <= Len(extracted_facts[1])
    /\ fact_states[1][i] # b
    /\ fact_states' = <<[fact_states[1] EXCEPT ![i] = b]>>
    /\ ui_error' = None
    /\ ui_warning' = None
    /\ UNCHANGED <<stage, extracted_facts, approved_facts, scenarios, evaluation_results,
                   runs, strict_mode, fact_values, manual_added, pc, all_results, idx,
                   results, run_idx, attempt, overall_metrics, historyVars, fnVars>>

\* the Fact field of row i (idx = i - 1) is overwritten with a text
EditFactValue(i, fact_text) ==
    /\ RowsShown
    /\ i <= Len(extracted_facts[1])
    /\ fact_values[1][i] # fact_text
    /\ fact_values' = <<[fact_values[1] EXCEPT ![i] = fact_text]>>
    /\ ui_error' = None
    /\ ui_warning' = None
    /\ UNCHANGED <<stage, extracted_facts, approved_facts, scenarios, evaluation_results,
                   runs, strict_mode, fact_states, manual_added, pc, all_results, idx,
                   results, run_idx, attempt, overall_metrics, historyVars, fnVars>>

\* Add, with a text in the Add Manual Fact field: the text is appended to
\* the list approved_facts of this run of the script, and st.rerun() ends
\* the run
AddManualFact(manual_fact) ==
    /\ RowsShown
    /\ ~IsEmpty(manual_fact)
    /\ manual_fact \notin Range(manual_added)
    /\ manual_added' = Append(manual_added, manual_fact)
    /\ ui_error' = None
    /\ ui_warning' = None
    /\ UNCHANGED <<stage, extracted_facts, approved_facts, scenarios, evaluation_results,
                   runs, strict_mode, fact_states, fact_values, pc, all_results, idx,
                   results, run_idx, attempt, overall_metrics, historyVars, fnVars>>

\* the widgets of the rows as the session holds them, the high-stakes layer
\* off
session_widgets(extracted, states, values) ==
    [i \in 1..Len(extracted) |->
        [approved |-> states[i], fact_value |-> values[i],
         verification_status |-> "unverified", verification_url |-> ""]]

\* Confirm Facts opening the results page at once
ConfirmFacts_skipping ==
    /\ RowsShown
    /\ approved_facts' =
          confirm_facts(extracted_facts[1],
                        session_widgets(extracted_facts[1], fact_states[1], fact_values[1]),
                        FALSE).approved_facts
    /\ stage' = "results"
    /\ ui_error' = None
    /\ ui_warning' = None
    /\ manual_added' = <<>>
    /\ UNCHANGED <<extracted_facts, scenarios, evaluation_results, runs, strict_mode,
                   fact_states, fact_values, pc, all_results, idx, results, run_idx,
                   attempt, overall_metrics, historyVars, fnVars>>

\* Confirm Facts: rendered only under a non-empty list of extracted facts;
\* the list approved_facts it reads is the one the rows of this run of the
\* script built
ConfirmFacts ==
    /\ RowsShown
    /\ approved_facts' =
          confirm_facts(extracted_facts[1],
                        session_widgets(extracted_facts[1], fact_states[1], fact_values[1]),
                        FALSE).approved_facts
    /\ stage' = "message_generation"
    /\ ui_error' = None
    /\ ui_warning' = None
    /\ manual_added' = <<>>
    /\ UNCHANGED <<extracted_facts, scenarios, evaluation_results, runs, strict_mode,
                   fact_states, fact_values, pc, all_results, idx, results, run_idx,
                   attempt, overall_metrics, historyVars, fnVars>>

\* Back to Fact Confirmation: the button of the message-generation page,
\* with or without approved facts; the rerun renders the page
BackToFactConfirmation ==
    /\ stage = "message_generation"
    /\ pc = "idle"
    /\ stage' = "fact_confirmation"
    /\ ui_error' = None
    /\ ui_warning' = None
    /\ ConfirmationPageOpens(extracted_facts)
    /\ UNCHANGED <<extracted_facts, approved_facts, scenarios, evaluation_results, runs,
                   strict_mode, pc, all_results, idx, results, run_idx, attempt,
                   overall_metrics, historyVars, fnVars>>

\* f"scenario_{n}"
scenario_id(n) ==
    CASE n = 1 -> "scenario_1"
      [] n = 2 -> "scenario_2"
      [] n = 3 -> "scenario_3"
      [] n = 4 -> "scenario_4"

\* company alone is asked for
form_complete_company_only(company, target_role) == company # <<>>

\* if company and target_role
form_complete(company, target_role) == company # <<>> /\ target_role # ""

\* Add Scenario is submitted with the fields of form (its id is not a field
\* of the form: the handler numbers the scenario)
AddScenario(form) ==
    /\ stage = "message_generation"
    /\ pc = "idle"
    /\ approved_facts # <<>>
    /\ IF form_complete(form.company, form.target_role)
         THEN /\ scenarios' =
                    Append(scenarios, [form EXCEPT !.id = scenario_id(Len(scenarios) + 1)])
              /\ ui_warning' = None
         ELSE /\ ui_warning' = "Please fill in Company and Target Role."
              /\ UNCHANGED scenarios
    /\ ui_error' = None
    /\ UNCHANGED <<stage, extracted_facts, approved_facts, evaluation_results, runs,
                   strict_mode, pageVars, pc, all_results, idx, results, run_idx, attempt,
                   overall_metrics, historyVars, fnVars>>

\* Remove, on the scenario listed at position i: scenarios.pop(i - 1)
RemoveScenario(i) ==
    /\ stage = "message_generation"
    /\ pc = "idle"
    /\ approved_facts # <<>>
    /\ i \in 1..Len(scenarios)
    /\ scenarios' = SubSeq(scenarios, 1, i - 1) \o SubSeq(scenarios, i + 1, Len(scenarios))
    /\ ui_error' = None
    /\ ui_warning' = None
    /\ UNCHANGED <<stage, extracted_facts, approved_facts, evaluation_results, runs,
                   strict_mode, pageVars, pc, all_results, idx, results, run_idx, attempt,
                   overall_metrics, historyVars, fnVars>>

\* Start New Evaluation, under the results shown
StartNewEvaluation ==
    /\ stage = "results"
    /\ pc = "idle"
    /\ evaluation_results # <<>>
    /\ overall_metrics # <<>>
    /\ stage' = "profile_input"
    /\ approved_facts' = <<>>
    /\ scenarios' = <<>>
    /\ evaluation_results' = <<>>
    /\ overall_metrics' = <<>>
    /\ ui_error' = None
    /\ ui_warning' = None
    /\ last_call' = NoCall
    /\ gen_trace' = <<>>
    /\ UNCHANGED <<extracted_facts, runs, strict_mode, pageVars, pc, all_results, idx,
                   results, run_idx, attempt, fnVars>>

\* the session in which the rows of the fact-confirmation page are left as
\* rendered and the scenarios are added in order and removed from the end
Next ==
    \/ \E found \in ExtractionsTried, outcome \in ExtractionOutcomes :
          ExtractFacts(found, outcome)
    \/ BackToProfileInput
    \/ ConfirmFacts
    \/ BackToFactConfirmation
    \/ \E form \in {ScenarioA, ScenarioB} :
          Append(scenarios, form) \in ScenarioLists /\ AddScenario(form)
    \/ RemoveScenario(Len(scenarios))
    \/ RunEvaluation
    \/ \E response \in Completions : ApiReturns(response)
    \/ \E e \in ApiErrors : ApiRaises(e)
    \/ ScenarioReturns
    \/ ShowResults
    \/ StartNewEvaluation

Spec == Init /\ [][Next]_vars

\* ------------------------------------------------------------------------
\* The wizard with its pages worked by hand: rows approved, rejected and
\* edited, manual facts added, scenarios submitted complete and incomplete
\* and removed anywhere; every completion comes back as ReplyGood
\* ------------------------------------------------------------------------

MaxScenarios == 2

\* a second profile, of one fact
FactCertificate == Txt(<<"aws", "certified">>, 0)
OtherExtracted == << [value |-> FactCertificate, category |-> "certifications"] >>
WizardExtractions == { <<>>, SessionExtracted, OtherExtracted }

\* the text typed into a Fact field or into the Add Manual Fact field
TypedFact == Txt(<<"speaks", "french">>, 0)

\* the add-scenario form as submitted: complete, without a company,
\* without a target role
WizardForms ==
    { ScenarioA, [ScenarioA EXCEPT !.company = <<>>], [ScenarioA EXCEPT !.target_role = ""] }

InitWizard ==
    /\ Init
    /\ runs = 1
    /\ ~strict_mode

NextWizard ==
    \/ \E found \in WizardExtractions : ExtractFacts(found, "advance")
    \/ BackToProfileInput
    \/ \E i \in 1..2, b \in BOOLEAN : SetApproval(i, b)
    \/ EditFactValue(1, TypedFact)
    \/ AddManualFact(TypedFact)
    \/ ConfirmFacts
    \/ BackToFactConfirmation
    \/ \E form \in WizardForms : Len(scenarios) < MaxScenarios /\ AddScenario(form)
    \/ \E i \in 1..MaxScenarios : RemoveScenario(i)
    \/ RunEvaluation
    \/ ApiReturns(ReplyGood)
    \/ ScenarioReturns
    \/ ShowResults
    \/ StartNewEvaluation

SpecWizard == InitWizard /\ [][NextWizard]_vars

\* ------------------------------------------------------------------------
\* Function harness: run_all_checks and compute_overall_metrics applied to
\* inputs drawn from bounded sets, outside any session
\* ------------------------------------------------------------------------

CheckTexts ==
    { EmptyText,
      Txt(<<"hello", "github", "chat">>, 47),
      Txt(<<"hello", "github", "chat">>, 48),
      Txt(<<"hello", "phd", "github", "chat">>, 40),
      Txt(<<"hello", "yo", "github", "chat">>, 40),
      Txt(<<"github", "chat", "!", "!", "!">>, 40),
      Txt(<<"worked", "at", "google", "github", "chat">>, 40),
      Txt(<<"github", "chat", "50%", "improvement">>, 40),
      Txt(<<"github", "chat", "significant", "impact">>, 40),
      Txt(<<"github", "chat", "2025">>, 40),
      Txt(<<"github", "chat", "2026", "https://me.app">>, 40),
      Txt(<<"hello", "call">>, 40) }

CheckFactLists == { <<>>, SessionFacts, <<FactDegree>> }

CheckMustInclude == { <<>>, <<"GitHub", "Ask for chat">>, <<"Portfolio", "LinkedIn">> }

CheckCompanies == { <<"google">>, <<"acme">> }

\* the calls of run_all_checks the harness makes
RunAllChecksCalls ==
    { [fn |-> "run_all_checks", text |-> text, max_words |-> 50,
       must_include |-> must_include, allowed_facts |-> allowed_facts,
       strict_mode |-> strict, company |-> company, target_role |-> "engineer"]
        : text \in CheckTexts, must_include \in CheckMustInclude,
          allowed_facts \in CheckFactLists, strict \in BOOLEAN,
          company \in CheckCompanies }

Call_run_all_checks ==
    /\ fn_call.fn = "run_all_checks"
    /\ fn_ret = NoFn
    /\ fn_ret' = run_all_checks(fn_call.text, fn_call.max_words, fn_call.must_include,
                                fn_call.allowed_facts, fn_call.strict_mode,
                                fn_call.company, fn_call.target_role, NoLinks)
    /\ UNCHANGED <<sessionVars, handlerVars, historyVars, fn_call>>

\* results of generations, as generate_message_with_word_limit returns them
GenResults == {gen_ok(c) : c \in Completions} \cup {gen_error(e) : e \in ApiErrors}

\* the scenarios of the session the harness evaluates, in order
HarnessScenarios == <<ScenarioA, ScenarioB>>

\* the call of compute_overall_metrics starts from an empty list
EmptyMetricsCall == [fn |-> "compute_overall_metrics", evaluation_results |-> <<>>]

\* evaluate_scenario for the next scenario, each of its runs ending in one of
\* the generation results; its result joins the list to be aggregated
Call_evaluate_scenario ==
    /\ fn_call.fn = "compute_overall_metrics"
    /\ fn_ret = NoFn
    /\ Len(fn_call.evaluation_results) < Len(HarnessScenarios)
    /\ \E n \in 1..MaxRuns :
         \E gens \in [1..n -> GenResults] :
            LET scenario == HarnessScenarios[Len(fn_call.evaluation_results) + 1]
                collected == [i \in 1..n |->
                                run_record(scenario, SessionFacts, FALSE, i - 1, gens[i])]
            IN fn_call' = [fn_call EXCEPT !.evaluation_results =
                              Append(@, scenario_result(scenario, collected))]
    /\ UNCHANGED <<sessionVars, handlerVars, historyVars, fn_ret>>

Call_compute_overall_metrics ==
    /\ fn_call.fn = "compute_overall_metrics"
    /\ fn_ret = NoFn
    /\ fn_ret' = compute_overall_metrics(fn_call.evaluation_results)
    /\ UNCHANGED <<sessionVars, handlerVars, historyVars, fn_call>>

\* the words the combined texts of the link-extraction calls are made of
LinkWords == ProfileUrls \cup {"here"}

\* the calls of extract_links_from_text the harness makes
ExtractLinksCalls ==
    { [fn |-> "extract_links_from_text", combined_text |-> words]
        : words \in UNION {[1..n -> LinkWords] : n \in 0..3} }

Call_extract_links_from_text ==
    /\ fn_call.fn = "extract_links_from_text"
    /\ fn_ret = NoFn
    /\ fn_ret' = [value |-> extract_links_from_text(fn_call.combined_text)]
    /\ UNCHANGED <<sessionVars, handlerVars, historyVars, fn_call>>

\* lines of profile text
LineEducation == <<"Graduated", "from", "NYU", "in", "2026">>
LineAward == <<"Won", "the", "best", "paper", "award", "at", "NeurIPS">>
LineClick == <<"click", "here", "https://me.app", "lorem", "lorem">>
LineGithub == <<"My", "GitHub", "is", "https://github.com/u", "lorem">>
LineLong == <<"Built">> \o [i \in 1..30 |-> "lorem"]

\* the profile inputs of the extraction calls
ProfileInputs ==
    { [structured_fields |-> <<>>, unstructured_text |-> <<>>, links |-> <<>>],
      [structured_fields |-> <<>>,
       unstructured_text |-> <<LineEducation, LineGithub, LineEducation>>,
       links |-> << <<"github", "https://github.com/u/">> >>],
      [structured_fields |-> << <<"education", LineEducation>> >>,
       unstructured_text |-> <<LineLong, <<"https://u.github.io">> >>,
       links |-> << <<"portfolio", "https://me.app">> >>],
      [structured_fields |-> << <<"awards", LineAward>> >>,
       unstructured_text |-> <<LineAward, LineClick>>,
       links |-> << <<"linkedin", "https://linkedin.com/company/z">> >>] }

\* facts as the model may return them; evidence <<>> is a missing field
RawEducation ==
    [fact |-> LineEducation, category |-> "education",
     evidence |-> <<"graduated", "from", "NYU", "in", "2026">>, confidence |-> 80]
RawEducationNoEvidence ==
    [fact |-> LineEducation, category |-> "education", evidence |-> <<>>, confidence |-> 100]
RawLong ==
    [fact |-> <<"Built", "lorem", "lorem", "lorem", "lorem">>, category |-> "work",
     evidence |-> LineLong, confidence |-> 75]
RawGithubLowConfidence ==
    [fact |-> <<"My", "GitHub", "is", "https://github.com/u">>, category |-> "links",
     evidence |-> <<"https://github.com/u">>, confidence |-> 40]
RawAward ==
    [fact |-> LineAward, category |-> "awards", evidence |-> <<>>, confidence |-> 90]
RawInvented ==
    [fact |-> <<"Won", "the", "best", "paper", "award", "at", "NYU">>,
     category |-> "prizes", evidence |-> <<"best", "paper", "award">>, confidence |-> 90]

\* what the completion call of an extraction may do
ExtractionCompletions ==
    { [kind |-> "raises", error |-> e, candidate_facts |-> <<>>] : e \in ApiErrors }
    \cup { [kind |-> "malformed", error |-> None, candidate_facts |-> <<>>] }
    \cup { [kind |-> "json", error |-> None, candidate_facts |-> reply]
             : reply \in { <<>>, <<RawEducation>>, <<RawEducationNoEvidence>>,
                           <<RawLong>>, <<RawGithubLowConfidence>>, <<RawAward>>,
                           <<RawInvented>>, <<RawEducation, RawEducationNoEvidence>>,
                           <<RawGithubLowConfidence, RawEducation>> } }

\* the calls of extract_candidate_facts the harness makes
ExtractCandidateFactsCalls ==
    { [fn |-> "extract_candidate_facts", profile_input |-> profile,
       show_debug |-> debug, completion |-> completion]
        : profile \in ProfileInputs, debug \in BOOLEAN,
          completion \in ExtractionCompletions }

Call_extract_candidate_facts ==
    /\ fn_call.fn = "extract_candidate_facts"
    /\ fn_ret = NoFn
    /\ fn_ret' = [value |-> extract_candidate_facts(fn_call.profile_input,
                                                    fn_call.show_debug,
                                                    fn_call.completion)]
    /\ UNCHANGED <<sessionVars, handlerVars, historyVars, fn_call>>

\* the fact texts, categories and messages given to the high-stakes functions
FactPublication == <<"Published", "a", "research", "paper", "at", "NeurIPS", "2025">>
FactAward == <<"Won", "an", "ACM", "Award", "in", "2025">>
FactPhd == <<"PhD", "in", "Computer", "Science", "from", "MIT">>
FactWork == <<"Worked", "at", "Google", "for", "2", "years">>
FactProject == <<"Built", "a", "web", "app">>
FactGraduated == <<"Graduated", "from", "NYU", "in", "2020">>
MessagePublished == <<"I", "published", "a", "paper", "at", "NeurIPS", "2025", "on", "LLM", "reliability.">>
MessageWon == <<"I", "won", "an", "ACM", "award", "in", "2025.">>
MessagePlain == <<"I", "built", "a", "web", "app">>
HighStakesFacts ==
    {FactPublication, FactAward, FactPhd, FactWork, FactProject, FactGraduated}
FactCategories == {"impact", "awards", "education", "Education", "work", "other"}

\* the longest list of approved facts given to preprocess_facts_for_generation
MaxFacts == 2

VerifiedPublication ==
    DictFact([value |-> FactPublication, category |-> "impact",
              verification_status |-> "verified",
              verification_url |-> "https://me.app"])
FlaggedProject ==
    DictFact([value |-> FactProject, category |-> "projects", trust_flag |-> "high_stakes"])
UnverifiedPhd == DictFact([fact |-> FactPhd, category |-> "education"])
TextlessFact == DictFact([category |-> "other"])

ApprovedItems ==
    {StrFact(t) : t \in HighStakesFacts}
    \cup {VerifiedPublication, FlaggedProject, UnverifiedPhd, TextlessFact}

ApprovedLists == UNION {[1..n -> ApprovedItems] : n \in 0..MaxFacts}

NoMetadata == [given |-> FALSE, entries |-> <<>>]
EmptyMetadata == [given |-> TRUE, entries |-> <<>>]
MetadataA ==
    [given |-> TRUE,
     entries |->
        (FactPublication :> [verification_status |-> "verified",
                             verification_url |-> "https://me.app"])
        @@ (FactProject :> [verification_status |-> "unverified", verification_url |-> ""])]
MetadataB ==
    [given |-> TRUE,
     entries |->
        (FactPublication :> [verification_status |-> "unverified", verification_url |-> ""])
        @@ (FactWork :> [verification_status |-> "verified",
                         verification_url |-> "https://me.app"])
        @@ (FactAward :> [verification_status |-> "pending", verification_url |-> ""])
        @@ (FactGraduated :> [verification_url |-> "https://me.app"])]

PreprocessCalls ==
    { [fn |-> "preprocess_facts_for_generation",
       approved_list |-> a,
       high_stakes_metadata |-> m,
       enforce_high_stakes_language |-> e]
        : a \in ApprovedLists,
          m \in {NoMetadata, EmptyMetadata, MetadataA, MetadataB},
          e \in BOOLEAN }

\* the function returns; the list it was given is the list the caller still
\* holds afterwards (the function only copies and reads it)
Call_preprocess_facts_for_generation ==
    /\ fn_call.fn = "preprocess_facts_for_generation"
    /\ fn_ret = NoFn
    /\ fn_ret' = [value |-> preprocess_facts_for_generation(
                                fn_call.approved_list,
                                fn_call.high_stakes_metadata,
                                fn_call.enforce_high_stakes_language),
                  approved_list_after |-> fn_call.approved_list]
    /\ UNCHANGED <<sessionVars, handlerVars, historyVars, fn_call>>

\* the conversion records preprocessing can log for these facts
ConversionRecords ==
    { conversion_entry(f, convert_to_cautious_phrasing(f, c), c)
        : f \in HighStakesFacts, c \in FactCategories }

\* the messages checked: every cautious text, and three definitive ones
MessagesTried ==
    {r.converted : r \in ConversionRecords}
    \cup {MessagePublished, MessageWon, MessagePlain}

\* conversion logs of no record, one record, and two records
ConversionLogs ==
    {<<>>} \cup {<<r>> : r \in ConversionRecords}
    \cup { <<conversion_entry(FactPublication,
                              convert_to_cautious_phrasing(FactPublication, "impact"),
                              "impact"), r>>
            : r \in {q \in ConversionRecords : q.original = FactAward} }

DetectCalls ==
    { [fn |-> "detect_high_stakes_enforcement_violation",
       message |-> m,
       conversion_log |-> l]
        : m \in MessagesTried, l \in ConversionLogs }

Call_detect_high_stakes_enforcement_violation ==
    /\ fn_call.fn = "detect_high_stakes_enforcement_violation"
    /\ fn_ret = NoFn
    /\ fn_ret' = [value |-> detect_high_stakes_enforcement_violation(
                                fn_call.message, fn_call.conversion_log)]
    /\ UNCHANGED <<sessionVars, handlerVars, historyVars, fn_call>>

\* the extracted facts shown on the fact-confirmation page
ExtractedPublication == [value |-> Txt(FactPublication, 0), category |-> "impact"]
ExtractedWork == [value |-> Txt(FactWork, 0), category |-> "work"]
ExtractedProject == [value |-> Txt(FactProject, 0), category |-> "projects"]
ExtractedFacts == {ExtractedPublication, ExtractedWork, ExtractedProject}
ExtractedLists ==
    {<<f>> : f \in ExtractedFacts} \cup {<<f, g>> : f \in ExtractedFacts, g \in ExtractedFacts}

\* the text typed over a fact's value
EditedValue == Txt(FactGraduated, 0)

\* the approve checkbox and the value field of one row
ApprovalChoices(fact) ==
    { [approved |-> TRUE, fact_value |-> fact.value],
      [approved |-> TRUE, fact_value |-> EditedValue],
      [approved |-> TRUE, fact_value |-> Txt(<<>>, 0)],
      [approved |-> FALSE, fact_value |-> fact.value] }

\* the widgets of one row: the verification widgets are rendered only for
\* a high-stakes fact with the layer enabled
WidgetChoices(fact, enable_high_stakes) ==
    IF trust_flag_of(fact, enable_high_stakes) = "high_stakes"
      THEN { [approved |-> a.approved, fact_value |-> a.fact_value,
              verification_status |-> s, verification_url |-> u]
                : a \in ApprovalChoices(fact),
                  s \in {"unverified", "verified"},
                  u \in VerificationUrls }
      ELSE { [approved |-> a.approved, fact_value |-> a.fact_value,
              verification_status |-> "unverified", verification_url |-> ""]
                : a \in ApprovalChoices(fact) }

\* the widgets of the rows of a page
WidgetLists(extracted, enable_high_stakes) ==
    IF Len(extracted) = 1
      THEN {<<w>> : w \in WidgetChoices(extracted[1], enable_high_stakes)}
      ELSE {<<w, x>> : w \in WidgetChoices(extracted[1], enable_high_stakes),
                       x \in WidgetChoices(extracted[2], enable_high_stakes)}

ConfirmCalls ==
    UNION { { [fn |-> "confirm_facts",
               extracted_facts |-> x,
               widgets |-> w,
               enable_high_stakes |-> e] : w \in WidgetLists(x, e) }
            : x \in ExtractedLists, e \in BOOLEAN }

\* Confirm Facts is pressed on a rendered page
Call_confirm_facts ==
    /\ fn_call.fn = "confirm_facts"
    /\ fn_ret = NoFn
    /\ fn_ret' = [value |-> confirm_facts(fn_call.extracted_facts, fn_call.widgets,
                                          fn_call.enable_high_stakes)]
    /\ UNCHANGED <<sessionVars, handlerVars, historyVars, fn_call>>

\* company names as written, of one word and of two
CompanyNames ==
    { <<"google">>, <<"Google">>, <<"GOOGLE">>, <<"acme">>,
      <<"Goldman", "Sachs">>, <<"goldman", "sachs">> }

\* what may follow the employer in the message
EmploymentTails == { <<>>, <<"for", "3", "years">> }

\* "I worked at <company>" and "I worked at <company> for 3 years"
EmploymentMessage(name, tail) == Txt(<<"i", "worked", "at">> \o name \o tail, 0)

\* "MS in Computer Science, expected May 2026"
FactMsExpected == Txt(<<"ms", "in", "computer", "science,", "expected", "may", "2026">>, 0)

\* "Graduated in <year> with honors", "Graduated in <year>"
GraduationMessage(year, tail) == Txt(<<"graduated", "in", year>> \o tail, 0)

FabricationTexts ==
    {EmploymentMessage(name, tail) : name \in CompanyNames, tail \in EmploymentTails}
    \cup {GraduationMessage(year, tail) :
            year \in YearTokens, tail \in { <<>>, <<"with", "honors">> }}

FabricationCalls ==
    { [fn |-> "detects_fabrication", text |-> text, allowed_facts |-> allowed_facts,
       company |-> company, target_role |-> "engineer"]
        : text \in FabricationTexts,
          allowed_facts \in { <<>>, <<FactMsExpected>>, SessionFacts },
          company \in CompanyNames \cup { <<>> } }

Call_detects_fabrication ==
    /\ fn_call.fn = "detects_fabrication"
    /\ fn_ret = NoFn
    /\ fn_ret' = [value |-> detects_fabrication(fn_call.text, fn_call.allowed_facts,
                                                fn_call.company, fn_call.target_role)]
    /\ UNCHANGED <<sessionVars, handlerVars, historyVars, fn_call>>

\* ------------------------------------------------------------------------
\* enforcement_behavior_tracker.py
\* A message and a fact are sequences of words as written.
\* ------------------------------------------------------------------------

\* the bare words of four characters or more: what \b\w{4,}\b matches
LongWords ==
    {"published", "research", "paper", "neurips", "2025", "award", "computer",
     "science", "from", "worked", "google", "years", "built", "graduated", "2020",
     "reliability", "reported", "work", "related", "verification", "link",
     "provided", "claim", "educational", "background", "experience", "have"}

\* set(re.findall(r'\b\w{4,}\b', text.lower()))
long_keywords(words) == {BareWord(words[i]) : i \in 1..Len(words)} \cap LongWords

\* \b(w1 w2 ... wn)\b matches the text: the words follow one another, only
\* the last may be followed by punctuation
HasBarePhrase(words, phrase) ==
    \E i \in 1..Len(words) :
        /\ i + Len(phrase) - 1 <= Len(words)
        /\ \A k \in 1..(Len(phrase) - 1) : LowerWord(words[i + k - 1]) = phrase[k]
        /\ BareWord(words[i + Len(phrase) - 1]) = phrase[Len(phrase)]

\* \b(phd|doctorate)\s+(from|at|in)\b
phd_pattern(words) ==
    \E w \in {"phd", "doctorate"}, q \in {"from", "at", "in"} : HasBarePhrase(words, <<w, q>>)

strong_patterns(words) ==
    \/ HasBareWord(words, {"published", "won", "awarded", "received", "accepted",
                           "presented"})
    \/ phd_pattern(words)
    \/ \E w \in {"graduated", "studied"}, q \in {"from", "at"},
          u \in {"harvard", "mit", "stanford"} : HasBarePhrase(words, <<w, q, u>>)

softening_phrases(words) ==
    \/ HasBareWord(words, {"reported", "pursued"})
    \/ HasBarePhrase(words, <<"related", "to">>)
    \/ HasBarePhrase(words, <<"involved", "in", "research", "related", "to">>)
    \/ \E ph \in { <<"according", "to">>, <<"as", "noted", "in">>,
                   <<"as", "mentioned", "in">> } : HasBarePhrase(words, ph)
    \/ HasBarePhrase(words, <<"verification", "link", "not", "provided">>)
    \/ HasBarePhrase(words, <<"verification", "not", "included">>)

definite_patterns(words) ==
    \/ HasBareWord(words, {"published"})
    \/ \E ph \in { <<"my", "paper">>, <<"accepted", "at">>, <<"presented", "at">> } :
          HasBarePhrase(words, ph)
    \/ HasBareWord(words, {"won", "received", "awarded", "prize", "honor"})
    \/ phd_pattern(words)

\* overlap > len(original_keywords) * 0.3, the count of common keywords
\* against three tenths of the fact's keywords
fact_is_mentioned(message, original_fact) ==
    10 * Cardinality(long_keywords(original_fact) \cap long_keywords(message))
        > 3 * Cardinality(long_keywords(original_fact))

detect_softened_claim(message, original_fact) ==
    IF ~strong_patterns(original_fact) THEN FALSE
    ELSE IF fact_is_mentioned(message, original_fact) THEN softening_phrases(message)
    ELSE FALSE

stop_words == {"the", "a", "an", "at", "in", "on", "for", "to", "of", "and", "or", "but"}

detect_suppressed_claim(message, original_fact, approved) ==
    IF original_fact \notin Range(approved) THEN FALSE
    ELSE LET original_keywords == long_keywords(original_fact) \ stop_words
             overlap == original_keywords \cap long_keywords(message)
         IN IF Cardinality(original_keywords) > 0
              THEN 10 * Cardinality(overlap) < 3 * Cardinality(original_keywords)
              ELSE FALSE

\* a violation reported whether or not the claim is softened
detect_enforcement_violation_unhedged(message, original_fact, conversion_log) ==
    LET was_converted ==
            \E k \in 1..Len(conversion_log) :
                LowerText(conversion_log[k].original) = LowerText(original_fact)
    IN IF ~was_converted THEN FALSE
       ELSE IF fact_is_mentioned(message, original_fact) THEN definite_patterns(message)
       ELSE FALSE

detect_enforcement_violation(message, original_fact, conversion_log) ==
    LET was_converted ==
            \E k \in 1..Len(conversion_log) :
                LowerText(conversion_log[k].original) = LowerText(original_fact)
    IN IF ~was_converted THEN FALSE
       ELSE IF fact_is_mentioned(message, original_fact)
         THEN definite_patterns(message) /\ ~detect_softened_claim(message, original_fact)
       ELSE FALSE

analyze_enforcement_behavior(message, approved, high_stakes_facts, conversion_log, enforcement_enabled) ==
    IF ~enforcement_enabled
      THEN [total_high_stakes_facts_detected |-> 0,
            total_high_stakes_unverified |-> 0,
            softened_claims_count |-> 0,
            suppressed_claims_count |-> 0,
            enforcement_violations_count |-> 0]
      ELSE LET facts == high_stakes_facts
               softened == {i \in 1..Len(facts) : detect_softened_claim(message, facts[i])}
               suppressed == {i \in 1..Len(facts) :
                                detect_suppressed_claim(message, facts[i], approved)}
               violations == {i \in 1..Len(facts) :
                                detect_enforcement_violation(message, facts[i],
                                                             conversion_log)}
           IN [total_high_stakes_facts_detected |-> Len(high_stakes_facts),
               total_high_stakes_unverified |-> Len(conversion_log),
               softened_claims_count |-> Cardinality(softened),
               suppressed_claims_count |-> Cardinality(suppressed),
               enforcement_violations_count |-> Cardinality(violations)]

\* "I have reported a published paper at NeurIPS 2025."
MessageHedged == <<"I", "have", "reported", "a", "published", "paper", "at", "NeurIPS", "2025.">>

\* the messages analysed: definitive, hedged, cautious, unrelated, empty
AnalyzedMessages ==
    {MessagePublished, MessageWon, MessagePlain, MessageHedged,
     convert_to_cautious_phrasing(FactPublication, "impact"), <<>>}

\* the high-stakes facts of a message: up to MaxFacts of them, repeats allowed
TrackedFacts == {FactPublication, FactAward, FactPhd}
TrackedLists == UNION {[1..n -> TrackedFacts] : n \in 0..MaxFacts}

TrackedLogs ==
    { <<>>,
      <<conversion_entry(FactPublication,
                         convert_to_cautious_phrasing(FactPublication, "impact"), "impact")>>,
      <<conversion_entry(FactPublication,
                         convert_to_cautious_phrasing(FactPublication, "impact"), "impact"),
        conversion_entry(FactAward,
                         convert_to_cautious_phrasing(FactAward, "awards"), "awards")>> }

AnalyzeCalls ==
    { [fn |-> "analyze_enforcement_behavior", message |-> m, approved_facts |-> a,
       high_stakes_facts |-> h, conversion_log |-> l, enforcement_enabled |-> e]
        : m \in AnalyzedMessages,
          a \in { <<>>, <<FactPublication, FactAward, FactPhd>> },
          h \in TrackedLists, l \in TrackedLogs, e \in BOOLEAN }

Call_analyze_enforcement_behavior ==
    /\ fn_call.fn = "analyze_enforcement_behavior"
    /\ fn_ret = NoFn
    /\ fn_ret' = [value |-> analyze_enforcement_behavior(
                                fn_call.message, fn_call.approved_facts,
                                fn_call.high_stakes_facts, fn_call.conversion_log,
                                fn_call.enforcement_enabled)]
    /\ UNCHANGED <<sessionVars, handlerVars, historyVars, fn_call>>

\* ------------------------------------------------------------------------
\* checks.py
\* ------------------------------------------------------------------------

\* the wordings request_chat accepts in relaxed mode
chat_phrases ==
    << <<"chat">>, <<"call">>, <<"connect">>, <<"schedule">>, <<"15-minute">>,
       <<"quick", "conversation">>, <<"conversation">> >>

education_keywords ==
    <<"education", "degree", "university", "college", "school", "graduate", "studied">>

experience_keywords ==
    <<"experience", "worked", "intern", "internship", "role", "position", "job">>

\* phrase in text_lower: a single word as a substring, several as a phrase
HasWording(text, phrase) ==
    IF Len(phrase) = 1 THEN HasSub(text, phrase[1]) ELSE HasPhrase(text, phrase)

\* whether one abstract key is found in the text
KeyPresent(text, key, strict) ==
    LET key_lower == ItemLower(key) IN
    IF key_lower = "mention_github" THEN HasSub(text, "github")
    ELSE IF key_lower = "mention_portfolio" THEN HasSub(text, "portfolio")
    ELSE IF key_lower = "mention_linkedin" THEN HasSub(text, "linkedin")
    ELSE IF key_lower = "request_chat"
      THEN IF strict THEN HasSub(text, "chat")
           ELSE \E k \in 1..Len(chat_phrases) : HasWording(text, chat_phrases[k])
    ELSE IF key_lower = "mention_education"
      THEN \E k \in 1..Len(education_keywords) : HasSub(text, education_keywords[k])
    ELSE IF key_lower = "mention_experience"
      THEN \E k \in 1..Len(experience_keywords) : HasSub(text, experience_keywords[k])
    ELSE HasSub(text, key_lower)

\* returns [ok, items]: (all present, missing keys)
must_include_all(text, must_include, strict) ==
    IF IsEmpty(text) \/ must_include = <<>>
      THEN [ok |-> (Len(must_include) = 0), items |-> must_include]
    ELSE LET found == {key \in Range(must_include) : KeyPresent(text, key, strict)}
             missing == SeqFilter(must_include, Range(must_include) \ found)
         IN [ok |-> (Len(missing) = 0), items |-> missing]

checks_within_word_limit(text, max_words) ==
    IF IsEmpty(text) THEN FALSE
    ELSE WordsOf(text) <= max_words

\* returns [ok, items]: (is professional, issues)
checks_tone_professional(text) ==
    IF IsEmpty(text) THEN [ok |-> FALSE, items |-> << <<"Empty message">> >>]
    ELSE LET emoji == IF \E i \in 1..Len(text.lead) : text.lead[i] \in EmojiTokens
                        THEN << <<"Contains emojis">> >> ELSE <<>>
             slangs == SeqFilter(text.lead, SlangTokens)
             slang == IF slangs # <<>>
                        THEN << <<"Slang detected: ", slangs[1]>> >> ELSE <<>>
             exclamation_count == Count(text.lead, {"!"})
             excl == IF exclamation_count > 2
                       THEN << <<"Too many exclamation marks ", exclamation_count>> >>
                       ELSE <<>>
             issues == emoji \o slang \o excl
         IN [ok |-> (Len(issues) = 0), items |-> issues]

\* words that are not made of letters only
NonLetterTokens == DigitTokens \cup UrlTokens \cup EmojiTokens \cup {"!", "science,"}

\* words of one letter, and words of less than three
OneLetterTokens == {"i", "a"}
ShortTokens == OneLetterTokens \cup {"an", "as", "at", "in", "ms", "cs", "yo", "ba"}

\* the pattern (at|for) <name> I: the shortest run of letter words, of two
\* characters at least, between "at" or "for" and "i"
AtForCaptures(words) ==
    LET n == Len(words)
        ends(i) == {j \in (i + 1)..(n - 1) :
                      /\ \A k \in (i + 1)..j : words[k] \notin NonLetterTokens
                      /\ ~(j = i + 1 /\ words[j] \in OneLetterTokens)
                      /\ words[j + 1] = "i"}
    IN {SubSeq(words, i + 1, CHOOSE j \in ends(i) : \A q \in ends(i) : j <= q)
          : i \in {h \in 1..n : words[h] \in {"at", "for"} /\ ends(h) # {}}}

\* the pattern as (a|an) ... (at|with) <name>: the word after the first "at"
\* or "with" that a name follows, no comma in between
AsCaptures(words) ==
    LET n == Len(words)
        preps(i) == {k \in (i + 3)..(n - 1) :
                       /\ words[k] \in {"at", "with"}
                       /\ words[k + 1] \notin NonLetterTokens \cup OneLetterTokens
                       /\ \A m \in (i + 2)..(k - 1) : words[m] # "science,"}
    IN {<<words[(CHOOSE k \in preps(i) : \A q \in preps(i) : k <= q) + 1]>>
          : i \in {h \in 1..(n - 1) : /\ words[h] = "as"
                                       /\ words[h + 1] \in {"a", "an"}
                                       /\ preps(h) # {}}}

\* the names the seven employment patterns capture from text_lower, each a
\* sequence of words, those shorter than three characters dropped
checks_found_companies(text) ==
    LET words == LowerText(text.lead)
        captured == {<<c>> : c \in CapturedCompanies(text)}
                    \cup AtForCaptures(words) \cup AsCaptures(words)
    IN {name \in captured : ~(Len(name) = 1 /\ name[1] \in ShortTokens)}

skip_words == {"the", "a", "an", "this", "that", "my", "your", "our", "their"}

\* found_company_lower in fact.lower(), for some fact
NameInFacts(allowed_facts, name) ==
    IF Len(name) = 1 THEN AnyFactHas(allowed_facts, name[1])
    ELSE AnyFactHasPhrase(allowed_facts, name)

\* found_company.title()
TitleText(name) == [i \in 1..Len(name) |-> TitleWord(name[i])]

\* returns [ok, items]: (no fabrication, fabrications); company is the
\* target company as its sequence of words
checks_detects_fabrication(text, allowed_facts, company, target_role, recipient_type, channel) ==
    IF IsEmpty(text) \/ allowed_facts = <<>> THEN [ok |-> FALSE, items |-> <<>>]
    ELSE
    LET phd == IF /\ \E i \in 1..Len(text.lead) : text.lead[i] \in {"phd", "doctorate"}
                  /\ ~(AnyFactHas(allowed_facts, "phd")
                         \/ AnyFactHas(allowed_facts, "doctorate"))
                 THEN << <<"Fabricated degree: ", "PhD">> >> ELSE <<>>
        mba == IF /\ \E i \in 1..Len(text.lead) : text.lead[i] = "mba"
                  /\ ~AnyFactHas(allowed_facts, "mba")
                 THEN << <<"Fabricated degree: ", "MBA">> >> ELSE <<>>
        ba  == IF /\ \E i \in 1..Len(text.lead) : text.lead[i] \in {"ba", "bachelor"}
                  /\ ~(AnyFactHas(allowed_facts, "ba")
                         \/ AnyFactHas(allowed_facts, "bachelor"))
                 THEN << <<"Fabricated degree: ", "BA">> >> ELSE <<>>
        years == SeqFilter(text.lead, YearTokens)
        badYears == SeqFilter(years, {y \in YearTokens : ~AnyFactHas(allowed_facts, y)})
        year == IF badYears # <<>>
                  THEN << <<"Graduation year not allowed: ", badYears[1]>> >> ELSE <<>>
        flagged == {name \in checks_found_companies(text) :
                      /\ name # LowerText(company)
                      /\ ~NameInFacts(allowed_facts, name)
                      /\ ~(Len(name) = 1 /\ name[1] \in skip_words)}
        \* found_companies is a set: which of the names is flagged first
        \* depends on its iteration order
        employer == IF flagged # {}
                      THEN << <<"New employer not allowed: ",
                                TitleText(CHOOSE name \in flagged : TRUE)>> >>
                      ELSE <<>>
        badPubs == SeqFilter(PubIndicators,
                      {ind \in Range(PubIndicators) :
                          HasSub(text, ind) /\ ~AnyFactHas(allowed_facts, ind)})
        pub == IF badPubs # <<>>
                 THEN << <<"Publications not allowed: ", badPubs[1]>> >> ELSE <<>>
        fabrications == phd \o mba \o ba \o year \o employer \o pub
    IN [ok |-> (Len(fabrications) = 0), items |-> fabrications]

\* the failure reason of one missing key
missing_reason(item) ==
    CASE item = "mention_portfolio"  -> <<"Missing Portfolio mention">>
      [] item = "mention_github"     -> <<"Missing GitHub mention">>
      [] item = "mention_linkedin"   -> <<"Missing LinkedIn mention">>
      [] item = "request_chat"       -> <<"Missing chat request">>
      [] item = "mention_education"  -> <<"Missing education mention">>
      [] item = "mention_experience" -> <<"Missing experience mention">>
      [] OTHER                       -> <<"Missing ", item>>

\* the dictionary run_checks builds from the results of its four checks:
\* its keys are the domain of the record
checks_dict(text, max_words, word_limit_ok, mi, tn, fab) ==
    LET failure_reasons ==
            (IF ~word_limit_ok
               THEN << <<"Word limit exceeded: ", WordsOf(text), max_words>> >> ELSE <<>>)
            \o (IF ~mi.ok THEN [i \in 1..Len(mi.items) |-> missing_reason(mi.items[i])]
                ELSE <<>>)
            \o (IF ~tn.ok THEN tn.items ELSE <<>>)
            \o (IF ~fab.ok THEN fab.items ELSE <<>>)
    IN [within_word_limit |-> word_limit_ok,
        must_include_ok |-> mi.ok,
        tone_ok |-> tn.ok,
        fabrication_detected |-> ~fab.ok,
        overall_pass |-> word_limit_ok /\ mi.ok /\ tn.ok /\ fab.ok,
        failure_reasons |-> failure_reasons,
        notes |-> IF failure_reasons # <<>> THEN Join(failure_reasons)
                  ELSE << <<"All checks passed">> >>]

run_checks(text, max_words, must_include, allowed_facts, tone, strict, company, target_role, recipient_type, channel) ==
    checks_dict(text, max_words,
                checks_within_word_limit(text, max_words),
                must_include_all(text, must_include, strict),
                checks_tone_professional(text),
                checks_detects_fabrication(text, allowed_facts, company, target_role,
                                           recipient_type, channel))

\* ------------------------------------------------------------------------
\* run.py: the command-line evaluator.  The content of a completion is
\* [body, confidence_line]: the message followed by the optional line
\* "Confidence: c" (c in hundredths), a one-element sequence or <<>>.
\* ------------------------------------------------------------------------

CliDefaultConfidence == 50

\* returns the confidence in hundredths, clamped to [0, 100]
cli_extract_confidence(content) ==
    IF content.confidence_line # <<>>
      THEN Max2(0, Min2(100, content.confidence_line[1]))
      ELSE CliDefaultConfidence

\* the whole content is the message checked: the two words of a confidence
\* line count as words of it
cli_message(content) ==
    Txt(content.body.lead,
        content.body.pad + (IF content.confidence_line # <<>> THEN 2 ELSE 0))

\* the row of the except clause
error_row(prompt_data, run_index, error_text) ==
    [id |-> prompt_data.id, run_idx |-> run_index, channel |-> prompt_data.channel,
     company |-> prompt_data.company, target_role |-> prompt_data.target_role,
     confidence |-> 0, within_word_limit |-> FALSE, must_include_ok |-> FALSE,
     adds_new_facts |-> TRUE, tone_ok |-> FALSE, overall_pass |-> FALSE,
     message |-> EmptyText, notes |-> <<"Error: ", error_text>>]

\* the keys of check_results the row reads, in the order it reads them
row_keys == <<"within_word_limit", "must_include_ok", "adds_new_facts", "tone_ok",
              "overall_pass", "notes">>

\* str(KeyError(key))
KeyErrorText(key) == <<"'", key, "'">>

\* the row built from check_results: a key the row reads that check_results
\* lacks raises KeyError inside the try, and the except clause builds the row
result_row(prompt_data, run_index, message, confidence, check_results) ==
    LET absent == SeqFilter(row_keys, Range(row_keys) \ DOMAIN check_results)
    IN IF absent # <<>>
         THEN error_row(prompt_data, run_index, KeyErrorText(absent[1]))
         ELSE [id |-> prompt_data.id, run_idx |-> run_index,
               channel |-> prompt_data.channel, company |-> prompt_data.company,
               target_role |-> prompt_data.target_role,
               confidence |-> confidence,
               within_word_limit |-> check_results.within_word_limit,
               must_include_ok |-> check_results.must_include_ok,
               adds_new_facts |-> check_results.adds_new_facts,
               tone_ok |-> check_results.tone_ok,
               overall_pass |-> check_results.overall_pass,
               message |-> message, notes |-> check_results.notes]

\* outcome is what client.chat.completions.create does: it raises an error
\* or returns a content.  Everything after the call is inside the same try.
generate_message(outcome, prompt_data, run_index) ==
    IF outcome.raised THEN error_row(prompt_data, run_index, outcome.error)
    ELSE result_row(prompt_data, run_index, cli_message(outcome.content),
                    cli_extract_confidence(outcome.content),
                    run_checks(cli_message(outcome.content), prompt_data.max_words,
                               prompt_data.must_include, prompt_data.allowed_facts,
                               prompt_data.tone, FALSE, <<>>, "", "", ""))

\* "would you be open to a quick call", "... quick chat", "i would love to
\* connect", "hello"
CallMessage == Txt(<<"would", "you", "be", "open", "to", "a", "quick", "call">>, 0)
ChatMessage == Txt(<<"would", "you", "be", "open", "to", "a", "quick", "chat">>, 0)
ConnectMessage == Txt(<<"i", "would", "love", "to", "connect">>, 0)
HelloMessage == Txt(<<"hello">>, 0)

MustIncludeTexts == {CallMessage, ChatMessage, ConnectMessage, HelloMessage, EmptyText}

MustIncludeLists == { <<>>, <<"request_chat">>, <<"request_chat", "mention_github">> }

\* the same arguments given to the function of checks.py and to the one of
\* validation_engine.py (approved_facts and link_facts left at their defaults)
MustIncludeCalls ==
    { [fn |-> fn, text |-> text, must_include |-> must_include, strict_mode |-> mode]
        : fn \in {"must_include_all", "must_include_check"},
          text \in MustIncludeTexts,
          must_include \in MustIncludeLists,
          mode \in BOOLEAN }

Call_must_include_all ==
    /\ fn_call.fn = "must_include_all"
    /\ fn_ret = NoFn
    /\ fn_ret' = [value |-> must_include_all(fn_call.text, fn_call.must_include,
                                             fn_call.strict_mode)]
    /\ UNCHANGED <<sessionVars, handlerVars, historyVars, fn_call>>

Call_must_include_check ==
    /\ fn_call.fn = "must_include_check"
    /\ fn_ret = NoFn
    /\ fn_ret' = [value |-> must_include_check(fn_call.text, fn_call.must_include,
                                               fn_call.strict_mode, <<>>, NoLinks)]
    /\ UNCHANGED <<sessionVars, handlerVars, historyVars, fn_call>>

\* a message that names an employer by "as an intern at" and "at ... i"
InternMessage ==
    Txt(<<"as", "an", "intern", "at", "acme", "i", "built", "github", "chat">>, 40)

CliTexts == CheckTexts \cup {InternMessage}

\* the errors the completion call may raise, or None when it returns
CliErrors == ApiErrors \cup {None}

\* the calls of generate_message: the completion call raises the error, or
\* returns the body followed by the confidence line; the prompt's facts and
\* required keys
GenerateCalls ==
    { [fn |-> "generate_message", error |-> e, body |-> body, confidence_line |-> conf,
       allowed_facts |-> facts, must_include |-> keys, run_index |-> r]
        : e \in CliErrors, body \in CliTexts, conf \in { <<>>, <<80>>, <<150>> },
          facts \in CheckFactLists,
          keys \in { <<>>, <<"mention_github", "request_chat">> },
          r \in 0..(MaxRuns - 1) }

\* what client.chat.completions.create does in the call
outcome_of(call) ==
    [raised |-> call.error # None,
     content |-> [body |-> call.body, confidence_line |-> call.confidence_line],
     error |-> call.error]

\* the prompt of the prompt file the call is made for
prompt_of(call) ==
    [id |-> "p1", channel |-> "email", recipient_type |-> "recruiter",
     company |-> <<"google">>, target_role |-> "engineer", tone |-> "professional",
     max_words |-> 50, allowed_facts |-> call.allowed_facts,
     must_include |-> call.must_include, notes |-> ""]

Call_generate_message ==
    /\ fn_call.fn = "generate_message"
    /\ fn_ret = NoFn
    /\ fn_ret' = [value |-> generate_message(outcome_of(fn_call), prompt_of(fn_call),
                                             fn_call.run_index)]
    /\ UNCHANGED <<sessionVars, handlerVars, historyVars, fn_call>>

\* the calls the harness starts from
HarnessCalls ==
    RunAllChecksCalls \cup {EmptyMetricsCall} \cup ExtractLinksCalls
    \cup ExtractCandidateFactsCalls \cup PreprocessCalls \cup DetectCalls
    \cup ConfirmCalls \cup FabricationCalls \cup MustIncludeCalls
    \cup AnalyzeCalls \cup GenerateCalls

InitFn ==
    /\ stage = "message_generation"
    /\ extracted_facts = <<>>
    /\ approved_facts = SessionFacts
    /\ scenarios = <<>>
    /\ evaluation_results = <<>>
    /\ runs = 1
    /\ strict_mode = FALSE
    /\ HandlerIdle
    /\ overall_metrics = <<>>
    /\ ui_error = None
    /\ ui_warning = None
    /\ fact_states = <<>>
    /\ fact_values = <<>>
    /\ manual_added = <<>>
    /\ last_call = NoCall
    /\ gen_trace = <<>>
    /\ fn_call \in HarnessCalls
    /\ fn_ret = NoFn

NextFn ==
    \/ Call_run_all_checks
    \/ Call_evaluate_scenario
    \/ Call_compute_overall_metrics
    \/ Call_extract_links_from_text
    \/ Call_extract_candidate_facts
    \/ Call_preprocess_facts_for_generation
    \/ Call_detect_high_stakes_enforcement_violation
    \/ Call_confirm_facts
    \/ Call_detects_fabrication
    \/ Call_must_include_all
    \/ Call_must_include_check
    \/ Call_analyze_enforcement_behavior
    \/ Call_generate_message

SpecFn == InitFn /\ [][NextFn]_vars

\* ------------------------------------------------------------------------
\* Claims
\* ------------------------------------------------------------------------

Decommissioned == "The model has been decommissioned"

\* the latest completion call belongs to the run the handler is at
SameRunAsLastCall == idx = last_call.idx /\ run_idx = last_call.run_idx

\* the record of the run of the latest completion call is in results
LastCallRecorded ==
    /\ idx = last_call.idx
    /\ Len(results) > last_call.run_idx
    /\ Len(gen_trace) > last_call.run_idx

\* C1: a run whose generation reported an error is recorded with
\* overall_pass, within_word_limit, must_include_ok and tone_ok false,
\* fabrication_detected and unsupported_claims_detected true, confidence 0.0
\* and the single failure reason "Generation error: <error text>", and
\* run_all_checks is not called for it.
C1_GenerationErrorFailsClosed ==
    /\ Len(gen_trace) = Len(results)
    /\ \A i \in 1..Len(results) :
          gen_trace[i].error # None =>
            /\ results[i].overall_pass = FALSE
            /\ results[i].within_word_limit = FALSE
            /\ results[i].must_include_ok = FALSE
            /\ results[i].tone_ok = FALSE
            /\ results[i].fabrication_detected = TRUE
            /\ results[i].unsupported_claims_detected = TRUE
            /\ results[i].confidence = 0
            /\ results[i].failure_reasons
                 = << <<"Generation error: ", gen_trace[i].error>> >>
            /\ ~gen_trace[i].validated

C1_Witness ==
    \E i \in 1..Len(gen_trace) : gen_trace[i].error # None

RunsComplete(scenario_res) ==
    /\ Len(scenario_res.runs) = runs
    /\ \A i \in 1..Len(scenario_res.runs) : scenario_res.runs[i].run = i

LexBefore(a, b) ==
    \/ a[1] < b[1]
    \/ a[1] = b[1] /\ a[2] < b[2]
    \/ a[1] = b[1] /\ a[2] = b[2] /\ a[3] < b[3]

\* C5: completion calls are issued for the scenarios in the order they were
\* added and, within a scenario, for runs in increasing index; a scenario's
\* rates and the overall metrics are computed only after every run they
\* cover has completed.
C5_SequentialOrder ==
    /\ (pc = "calling" /\ last_call.outcome # "none") =>
          LexBefore(<<last_call.idx, last_call.run_idx, last_call.attempt>>,
                    <<idx, run_idx, attempt>>)
    /\ pc = "calling" => Len(all_results) = idx - 1 /\ Len(results) = run_idx
    /\ \A k \in 1..Len(all_results) :
          /\ all_results[k].scenario = scenarios[k]
          /\ Len(all_results[k].runs) = runs
    /\ \A k \in 1..Len(evaluation_results) :
          /\ evaluation_results[k].scenario = scenarios[k]
          /\ Len(evaluation_results[k].runs) = runs
    /\ overall_metrics # <<>> =>
          /\ stage = "results"
          /\ Len(evaluation_results) = Len(scenarios)

C5_Witness ==
    /\ overall_metrics # <<>>
    /\ Len(evaluation_results) = 2
    /\ runs = 2

\* C6: once a completion call fails with an error that reports the model as
\* decommissioned, the evaluation is aborted: the handler is over, no further
\* completion call is pending, and an error is shown to the user.
C6_DecommissionedAborts ==
    last_call.error = Decommissioned => (pc = "idle" /\ ui_error # None)

\* C7: run_all_checks sets overall_pass to true exactly when
\* within_word_limit, must_include_ok and tone_ok are true and
\* fabrication_detected and unsupported_claims_detected are false.
C7_OverallPassIsConjunction ==
    (fn_call.fn = "run_all_checks" /\ fn_ret # NoFn) =>
        (fn_ret.overall_pass <=>
            /\ fn_ret.within_word_limit
            /\ fn_ret.must_include_ok
            /\ fn_ret.tone_ok
            /\ ~fn_ret.fabrication_detected
            /\ ~fn_ret.unsupported_claims_detected)

C7_Witness ==
    /\ fn_call.fn = "run_all_checks"
    /\ fn_ret # NoFn
    /\ fn_call.strict_mode
    /\ fn_ret.overall_pass

\* the scenario results computed so far in the evaluation
ScenarioResultsSoFar == Range(all_results) \cup Range(evaluation_results)

\* C8: for a scenario evaluated with N >= 1 runs, stability is true iff all
\* N runs have the same overall_pass value.
C8_StabilityIffUniform ==
    \A sr \in ScenarioResultsSoFar :
        sr.stability <=>
            \A i, j \in 1..Len(sr.runs) : sr.runs[i].overall_pass = sr.runs[j].overall_pass

C8_Witness ==
    \E sr \in ScenarioResultsSoFar :
        /\ Len(sr.runs) = 2
        /\ ~sr.runs[1].overall_pass
        /\ ~sr.runs[2].overall_pass
        /\ sr.stability

\* C9: overconfidence_rate is the number of runs with confidence >= 0.75 and
\* overall_pass false, divided by the number of runs; overconfident is true
\* iff there is such a run; a passing run never counts.
C9_OverconfidenceRate ==
    \A sr \in ScenarioResultsSoFar :
        LET counted == {i \in 1..Len(sr.runs) :
                           sr.runs[i].confidence >= 75 /\ ~sr.runs[i].overall_pass}
        IN /\ sr.overconfidence_rate = Frac(Cardinality(counted), Len(sr.runs))
           /\ sr.overconfident <=> counted # {}

C9_Witness ==
    \E sr \in ScenarioResultsSoFar :
        /\ Len(sr.runs) = 2
        /\ sr.runs[1].confidence = 75 /\ ~sr.runs[1].overall_pass
        /\ sr.runs[2].confidence = 80 /\ sr.runs[2].overall_pass
        /\ sr.overconfidence_rate = <<1, 2>>

\* C10: compute_overall_metrics of the empty list returns pass_rate,
\* fabrication_rate, unsupported_rate, overconfidence_rate and stability_rate
\* all 0.0, without a division error.
C10_EmptyCorpusMetrics ==
    (/\ fn_call.fn = "compute_overall_metrics"
     /\ fn_call.evaluation_results = <<>>
     /\ fn_ret # NoFn) =>
        fn_ret = [pass_rate |-> <<0, 1>>, fabrication_rate |-> <<0, 1>>,
                  unsupported_rate |-> <<0, 1>>, overconfidence_rate |-> <<0, 1>>,
                  stability_rate |-> <<0, 1>>]

C10_Witness ==
    /\ fn_call.fn = "compute_overall_metrics"
    /\ fn_call.evaluation_results = <<>>
    /\ fn_ret # NoFn

\* a call of extract_candidate_facts that has returned
ExtractionReturned == fn_call.fn = "extract_candidate_facts" /\ fn_ret # NoFn

\* C11: every candidate fact returned by extract_candidate_facts carries an
\* evidence string that occurs, case-insensitively, in the combined source
\* text of the call, whatever the length of the evidence and whether or not
\* the model supplied an evidence field.
C11_EvidenceInSource ==
    ExtractionReturned =>
        \A i \in 1..Len(fn_ret.value.candidate_facts) :
            QuoteIn(fn_ret.value.candidate_facts[i].evidence,
                    combined_text_of(fn_call.profile_input))

\* two URLs are the same when they are equal after stripping trailing
\* slashes and lower-casing: the class of each URL of the vocabulary
SameUrlClass(u) ==
    CASE u \in {"https://github.com/u", "https://github.com/u/", "https://GitHub.com/U"} -> 1
      [] u \in {"https://me.app", "https://me.app/"} -> 2
      [] u = "https://u.github.io" -> 3
      [] u = "https://linkedin.com/in/u" -> 4
      [] u = "https://linkedin.com/company/z" -> 5

\* the position in the text of the first URL of the class of u
FirstOccurrence(words, u) ==
    CHOOSE i \in 1..Len(words) :
        /\ words[i] \in ProfileUrls
        /\ SameUrlClass(words[i]) = SameUrlClass(u)
        /\ \A j \in 1..(i - 1) :
              words[j] \in ProfileUrls => SameUrlClass(words[j]) # SameUrlClass(u)

\* C14: extract_links_from_text returns at most one fact per URL, URLs
\* being the same up to trailing slash and letter case; the fact kept is
\* that of the first occurrence, and facts come in order of first occurrence.
C14_OneFactPerUrl ==
    (fn_call.fn = "extract_links_from_text" /\ fn_ret # NoFn) =>
        LET words == fn_call.combined_text
            out == fn_ret.value
        IN /\ \A a, b \in 1..Len(out) :
                 a # b => SameUrlClass(out[a].evidence[1]) # SameUrlClass(out[b].evidence[1])
           /\ \A a \in 1..Len(out) :
                 /\ out[a].evidence[1] \in Range(words)
                 /\ words[FirstOccurrence(words, out[a].evidence[1])] = out[a].evidence[1]
           /\ \A a, b \in 1..Len(out) :
                 a < b => FirstOccurrence(words, out[a].evidence[1])
                            < FirstOccurrence(words, out[b].evidence[1])

\* a URL that reappears with a trailing slash and in other letter case
\* yields the single fact of its first occurrence
C14_Witness ==
    /\ fn_call.fn = "extract_links_from_text"
    /\ fn_call.combined_text =
          <<"https://github.com/u/", "https://GitHub.com/U", "https://github.com/u">>
    /\ fn_ret # NoFn
    /\ Len(fn_ret.value) = 1
    /\ fn_ret.value[1].evidence = <<"https://github.com/u/">>

\* the URLs a candidate fact carries, in its text or its evidence
UrlsCarried(item) == Range(FindUrls(item.fact \o item.evidence))

\* C12: for every http(s) URL present in the combined input text, the
\* candidate facts returned by extract_candidate_facts include a fact
\* carrying that URL (up to trailing slash and letter case), whatever the
\* model returns, omits, or returns in a form that is later rejected.
C12_LinksNeverLost ==
    ExtractionReturned =>
        \A u \in Range(FindUrls(combined_text_of(fn_call.profile_input))) :
            \E i \in 1..Len(fn_ret.value.candidate_facts) :
                \E w \in UrlsCarried(fn_ret.value.candidate_facts[i]) :
                    SameUrlClass(w) = SameUrlClass(u)

\* C13: when the completion call raises or the model returns malformed
\* JSON, extract_candidate_facts returns the facts of the regex fallback
\* extractor applied to the combined text, each with confidence 0.7: for a
\* text stating an education ("Graduated from ..."), at least one fact.
C13_FallbackOnFailure ==
    (/\ ExtractionReturned
     /\ fn_call.completion.kind \in {"raises", "malformed"}
     /\ HasWords(combined_text_of(fn_call.profile_input), <<"graduated", "from">>)) =>
        /\ fn_ret.value.candidate_facts # <<>>
        /\ \A i \in 1..Len(fn_ret.value.candidate_facts) :
              fn_ret.value.candidate_facts[i].confidence = 70

\* a call of preprocess_facts_for_generation that has returned
PreprocessReturned == fn_call.fn = "preprocess_facts_for_generation" /\ fn_ret # NoFn

\* enforcement is enabled and a non-empty metadata dictionary was supplied
EnforcementApplies ==
    /\ fn_call.enforce_high_stakes_language
    /\ fn_call.high_stakes_metadata.given
    /\ DOMAIN fn_call.high_stakes_metadata.entries # {}

\* what the function reads from input fact i
ReadingAt(i) == fact_reading(fn_call.approved_list[i], fn_call.high_stakes_metadata.entries)

\* input fact i is high-stakes and its status is not 'verified'
NeedsConversion(i) == ReadingAt(i).is_high /\ ReadingAt(i).verification_status # "verified"

\* the positions of the unverified high-stakes facts, and the k-th of them
ConversionPositions == {i \in 1..Len(fn_call.approved_list) : NeedsConversion(i)}
NthConversion(k) ==
    CHOOSE i \in ConversionPositions :
        Cardinality({j \in ConversionPositions : j < i}) = k - 1

\* C15: with enforcement enabled and metadata supplied, every high-stakes
\* fact whose status is 'verified' and every fact that is not high-stakes is
\* passed on with its text unchanged and adds no log entry; every
\* high-stakes fact with another status is replaced by
\* convert_to_cautious_phrasing of it and adds exactly one log entry
\* (original, converted, reason 'unverified_high_stakes', category), the
\* entries standing in the order of the facts.
C15_ProcessedByStatus ==
    (PreprocessReturned /\ EnforcementApplies) =>
        LET out == fn_ret.value
            n == Len(fn_call.approved_list)
        IN /\ Len(out.facts_for_generation) = n
           /\ \A i \in 1..n :
                out.facts_for_generation[i] =
                    IF NeedsConversion(i)
                      THEN StrFact(convert_to_cautious_phrasing(ReadingAt(i).fact_text,
                                                                ReadingAt(i).fact_category))
                      ELSE StrFact(ReadingAt(i).fact_text)
           /\ Len(out.conversion_log) = Cardinality(ConversionPositions)
           /\ \A k \in 1..Len(out.conversion_log) :
                out.conversion_log[k] =
                    [original |-> ReadingAt(NthConversion(k)).fact_text,
                     converted |-> out.facts_for_generation[NthConversion(k)].text,
                     reason |-> "unverified_high_stakes",
                     category |-> ReadingAt(NthConversion(k)).fact_category]

\* a verified publication passed on unchanged next to a fact that the
\* metadata marks unverified and that was reworded, with one log entry
C15_Witness ==
    /\ PreprocessReturned
    /\ EnforcementApplies
    /\ fn_call.approved_list = <<StrFact(FactPublication), StrFact(FactProject)>>
    /\ fn_call.high_stakes_metadata = MetadataA
    /\ fn_ret.value.facts_for_generation[1] = StrFact(FactPublication)
    /\ fn_ret.value.facts_for_generation[2] # StrFact(FactProject)
    /\ Len(fn_ret.value.conversion_log) = 1

\* C16 as stated: with enforcement disabled, or without metadata, the facts
\* returned equal the input list, the conversion log is empty, every entry
\* of stats is zero, and the input list is not modified.
C16_PassThroughAllZero ==
    (PreprocessReturned /\ ~EnforcementApplies) =>
        /\ fn_ret.value.facts_for_generation = fn_call.approved_list
        /\ fn_ret.value.conversion_log = <<>>
        /\ \A key \in DOMAIN fn_ret.value.stats : fn_ret.value.stats[key] = 0
        /\ fn_ret.approved_list_after = fn_call.approved_list

\* C16 as amended: with enforcement disabled, or without metadata, the facts
\* returned equal the input list, the conversion log is empty, total_facts
\* is the length of the input list and every other counter of stats is
\* zero, and the input list is not modified.
C16_PassThroughCountersZero ==
    (PreprocessReturned /\ ~EnforcementApplies) =>
        /\ fn_ret.value.facts_for_generation = fn_call.approved_list
        /\ fn_ret.value.conversion_log = <<>>
        /\ fn_ret.value.stats.total_facts = Len(fn_call.approved_list)
        /\ \A key \in DOMAIN fn_ret.value.stats \ {"total_facts"} :
              fn_ret.value.stats[key] = 0
        /\ fn_ret.approved_list_after = fn_call.approved_list

\* enforcement is disabled while the metadata marks a listed publication
\* unverified: the publication comes back as it was given
C16_Witness ==
    /\ PreprocessReturned
    /\ ~fn_call.enforce_high_stakes_language
    /\ fn_call.high_stakes_metadata = MetadataB
    /\ fn_call.approved_list = <<StrFact(FactPublication), UnverifiedPhd>>
    /\ fn_ret.value.facts_for_generation = fn_call.approved_list
    /\ fn_ret.value.stats.total_facts = 2

\* C17: no fact is dropped or reordered: facts_for_generation and
\* original_facts have the length of approved_facts, position i holding
\* input fact i (as given, as its text, or reworded); excluded_count is 0;
\* converted_count = unverified_count = the length of conversion_log; and
\* high_stakes_count = verified_count + unverified_count.
C17_NothingDropped ==
    PreprocessReturned =>
        LET out == fn_ret.value
            n == Len(fn_call.approved_list)
        IN /\ Len(out.facts_for_generation) = n
           /\ Len(out.original_facts) = n
           /\ \A i \in 1..n :
                /\ out.original_facts[i] \in
                      {fn_call.approved_list[i], StrFact(ReadingAt(i).fact_text)}
                /\ out.facts_for_generation[i] \in
                      {fn_call.approved_list[i], StrFact(ReadingAt(i).fact_text),
                       StrFact(convert_to_cautious_phrasing(ReadingAt(i).fact_text,
                                                            ReadingAt(i).fact_category))}
           /\ out.stats.total_facts = n
           /\ out.stats.excluded_count = 0
           /\ out.stats.converted_count = out.stats.unverified_count
           /\ out.stats.converted_count = Len(out.conversion_log)
           /\ out.stats.high_stakes_count =
                  out.stats.verified_count + out.stats.unverified_count

\* two unverified high-stakes facts, both reworded and logged in their order
C17_Witness ==
    /\ PreprocessReturned
    /\ EnforcementApplies
    /\ fn_call.approved_list = <<StrFact(FactPhd), StrFact(FactAward)>>
    /\ fn_ret.value.stats.converted_count = 2
    /\ fn_ret.value.conversion_log[1].original = FactPhd
    /\ fn_ret.value.conversion_log[2].original = FactAward

\* a call of detect_high_stakes_enforcement_violation with a log of one
\* record that has returned
DetectReturned ==
    /\ fn_call.fn = "detect_high_stakes_enforcement_violation"
    /\ fn_ret # NoFn
    /\ Len(fn_call.conversion_log) = 1

\* C18: a message that is exactly convert_to_cautious_phrasing(fact,
\* category), checked against the conversion-log record of that fact, is not
\* reported as a violation; the message 'I published a paper at NeurIPS 2025
\* ...' checked against the record of the NeurIPS publication fact is.
C18_CautiousTextNotFlagged ==
    DetectReturned =>
        LET conversion == fn_call.conversion_log[1]
        IN /\ fn_call.message =
                  convert_to_cautious_phrasing(conversion.original, conversion.category)
              => ~fn_ret.value.violation_detected
           /\ (/\ fn_call.message = MessagePublished
               /\ conversion.original = FactPublication
               /\ conversion.category = "impact")
              => fn_ret.value.violation_detected

\* Confirm Facts returned from a page of extracted facts
ConfirmReturned == fn_call.fn = "confirm_facts" /\ fn_ret # NoFn

\* row i is a high-stakes row marked 'verified' with an empty or blank URL
VerifiedWithoutUrl(i) ==
    /\ fn_call.enable_high_stakes
    /\ is_high_stakes(fn_call.extracted_facts[i].value.lead, fn_call.extracted_facts[i].category)
    /\ fn_call.widgets[i].verification_status = "verified"
    /\ IsBlankUrl(fn_call.widgets[i].verification_url)

\* row i is the last row with its fact text
LastWithItsText(i) ==
    \A j \in (i + 1)..Len(fn_call.extracted_facts) :
        fn_call.extracted_facts[j].value # fn_call.extracted_facts[i].value

\* the approved facts the rows of the page appended, in order, paired with
\* the row each one comes from
ApprovedRows ==
    SelectSeq([i \in 1..Len(fn_call.widgets) |-> i],
              LAMBDA i : fn_call.widgets[i].approved /\ ~IsEmpty(fn_call.widgets[i].fact_value))

\* C19: a high-stakes fact marked 'verified' with an empty or blank
\* verification URL is treated as 'unverified': its approved fact and its
\* metadata entry carry 'unverified', and no approved fact and no metadata
\* entry recorded at confirmation is 'verified' with an empty or blank URL.
C19_VerifiedNeedsUrl ==
    ConfirmReturned =>
        /\ \A k \in 1..Len(fn_ret.value.page_approved_facts) :
              LET entry == fn_ret.value.page_approved_facts[k]
              IN entry.fmt = "dict" =>
                    /\ ~(entry.verification_status = "verified"
                         /\ IsBlankUrl(entry.verification_url))
                    /\ VerifiedWithoutUrl(ApprovedRows[k]) =>
                          entry.verification_status = "unverified"
        /\ \A m \in 1..Len(fn_ret.value.high_stakes_metadata) :
              LET metadata == fn_ret.value.high_stakes_metadata[m]
              IN /\ \A key \in DOMAIN metadata :
                        ~(metadata[key].verification_status = "verified"
                          /\ IsBlankUrl(metadata[key].verification_url))
                 /\ \A i \in 1..Len(fn_call.extracted_facts) :
                        VerifiedWithoutUrl(i) /\ LastWithItsText(i) =>
                            metadata[fn_call.extracted_facts[i].value].verification_status
                                = "unverified"

\* an approved high-stakes fact marked 'verified' with a blank URL was
\* confirmed, next to one marked 'verified' with a URL
C19_Witness ==
    /\ ConfirmReturned
    /\ Len(fn_call.extracted_facts) = 2
    /\ VerifiedWithoutUrl(1)
    /\ fn_call.widgets[1].verification_url = "  "
    /\ fn_call.widgets[1].approved
    /\ fn_call.widgets[1].fact_value = fn_call.extracted_facts[1].value
    /\ fn_call.widgets[2].approved
    /\ fn_call.widgets[2].fact_value = fn_call.extracted_facts[2].value
    /\ fn_call.extracted_facts[2].value # fn_call.extracted_facts[1].value
    /\ Len(fn_ret.value.page_approved_facts) = 2
    /\ fn_ret.value.page_approved_facts[1].fmt = "dict"
    /\ fn_ret.value.page_approved_facts[1].verification_status = "unverified"
    /\ fn_ret.value.page_approved_facts[2].fmt = "dict"
    /\ fn_ret.value.page_approved_facts[2].verification_status = "verified"
    /\ fn_ret.value.high_stakes_metadata[1][fn_call.extracted_facts[1].value].verification_status
          = "unverified"
    /\ fn_ret.value.high_stakes_metadata[1][fn_call.extracted_facts[2].value].verification_status
          = "verified"

\* the four stages of a session
Stages == {"profile_input", "fact_confirmation", "message_generation", "results"}

\* the position of a stage in the order of the pages
StageRank(s) ==
    CASE s = "profile_input" -> 1
      [] s = "fact_confirmation" -> 2
      [] s = "message_generation" -> 3
      [] s = "results" -> 4

\* this step stores the results of Run Evaluation: one result per defined
\* scenario, in the order of the scenarios, and at least one
StoresOneResultPerScenario ==
    /\ pc = "aggregating"
    /\ Len(scenarios) >= 1
    /\ scenarios' = scenarios
    /\ Len(evaluation_results') = Len(scenarios)
    /\ \A i \in 1..Len(scenarios) : evaluation_results'[i].scenario_id = scenarios[i].id

\* a step that changes the stage is one of the moves allowed
AllowedStageStep ==
    stage' # stage =>
        /\ StageRank(stage') <= StageRank(stage) + 1
        /\ stage' = "fact_confirmation" => stage \in {"profile_input", "message_generation"}
        /\ stage' = "message_generation" => stage = "fact_confirmation"
        /\ stage' = "results" => (stage = "message_generation" /\ StoresOneResultPerScenario)

\* C20: the stage is always one of the four stages and starts at
\* profile_input; it never skips a stage forward; fact_confirmation is
\* entered only from profile_input or back from message_generation,
\* message_generation only from fact_confirmation, and results only from
\* message_generation by the step of Run Evaluation that stores one result
\* per defined scenario, of which there is at least one.
C20_StageOrder ==
    /\ stage = "profile_input"
    /\ [](stage \in Stages)
    /\ [][AllowedStageStep]_vars

\* a session went through the four stages with two scenarios, and its
\* results are shown
C20_Witness ==
    /\ stage = "results"
    /\ extracted_facts = <<SessionExtracted>>
    /\ approved_facts = SessionFacts
    /\ Len(scenarios) = 2
    /\ Len(evaluation_results) = 2
    /\ overall_metrics # <<>>

\* the add-scenario form was submitted with an empty field: its warning is
\* on the page after the step
IncompleteFormSubmitted == ui_warning' = "Please fill in Company and Target Role."

\* C21: every scenario of the session's list has a non-empty company and a
\* non-empty target_role, and submitting the add-scenario form with either
\* field empty leaves the list unchanged.
C21_ScenariosComplete ==
    /\ [](\A i \in 1..Len(scenarios) :
              scenarios[i].company # <<>> /\ scenarios[i].target_role # "")
    /\ [][IncompleteFormSubmitted => scenarios' = scenarios]_vars

\* the form was submitted incomplete after a complete submission, and the
\* list still holds the one scenario
C21_Witness ==
    /\ stage = "message_generation"
    /\ ui_warning = "Please fill in Company and Target Role."
    /\ Len(scenarios) = 1
    /\ scenarios[1].company # <<>>
    /\ scenarios[1].target_role # ""

\* detects_fabrication returned
FabricationReturned == fn_call.fn = "detects_fabrication" /\ fn_ret # NoFn

\* the message says "worked at" an employer
EmploymentAsserted ==
    /\ Len(fn_call.text.lead) >= 4
    /\ SubSeq(fn_call.text.lead, 1, 3) = <<"i", "worked", "at">>

\* the employer the message names, as written
EmployerNamed ==
    LET words == fn_call.text.lead
        n == Len(words)
    IN IF n >= 7 /\ SubSeq(words, n - 2, n) = <<"for", "3", "years">>
         THEN SubSeq(words, 4, n - 3)
         ELSE SubSeq(words, 4, n)

\* the list returned has an employer entry
EmployerReported ==
    \E k \in 1..Len(fn_ret.value.items) : fn_ret.value.items[k][1] = "Fabricated employer: "

\* C23: the target company is never reported as a fabricated employer: a
\* message asserting employment at the target company, whatever its letter
\* case and number of words, and naming no other employer gets no employer
\* entry, while the same message with a different target company gets one.
C23_TargetCompanyExempt ==
    (FabricationReturned /\ EmploymentAsserted) =>
        IF LowerText(EmployerNamed) = LowerText(fn_call.company)
          THEN ~EmployerReported
          ELSE fn_call.allowed_facts # <<>> => EmployerReported

\* the message of the call is "Graduated in <year> ..."
GraduationAsserted ==
    /\ Len(fn_call.text.lead) >= 3
    /\ SubSeq(fn_call.text.lead, 1, 2) = <<"graduated", "in">>

\* the list returned has an entry naming the year
YearReported(year) ==
    \E k \in 1..Len(fn_ret.value.items) :
        fn_ret.value.items[k] = <<"Fabricated year: ", year>>

\* C24: "Graduated in 2026 with honors" checked against the one fact
\* "MS in Computer Science, expected May 2026" returns no fabrication and an
\* empty list; a year of the message that no fact of a non-empty fact list
\* contains gets an entry naming that year.
C24_AllowedYearNotFlagged ==
    (FabricationReturned /\ GraduationAsserted) =>
        /\ (/\ fn_call.text = GraduationMessage("2026", <<"with", "honors">>)
            /\ fn_call.allowed_facts = <<FactMsExpected>>)
              => fn_ret.value = [ok |-> TRUE, items |-> <<>>]
        /\ \A year \in YearTokens :
              (/\ fn_call.text.lead[3] = year
               /\ fn_call.allowed_facts # <<>>
               /\ ~AnyFactHas(fn_call.allowed_facts, year))
                 => ~fn_ret.value.ok /\ YearReported(year)

\* the step is a click on Confirm Facts
ConfirmStep == stage = "fact_confirmation" /\ stage' = "message_generation"

\* C22: a fact typed into Add Manual Fact and added with Add while the
\* confirmation page is open is one of the approved facts that the following
\* Confirm Facts stores (the approved_facts_final of the preparation).
C22_ManualFactApproved ==
    [][ConfirmStep =>
          \A k \in 1..Len(manual_added) : manual_added[k] \in Range(approved_facts')]_vars

\* C28: whatever scenarios were added and removed, the ids of the scenarios
\* of the session's list are pairwise distinct.
C28_DistinctScenarioIds ==
    \A i, j \in 1..Len(scenarios) : i # j => scenarios[i].id # scenarios[j].id

\* the step stores a new extraction and opens the confirmation page on it
ExtractStep ==
    /\ stage = "profile_input"
    /\ stage' = "fact_confirmation"
    /\ extracted_facts'[1] # <<>>

\* the texts of the facts extracted last
ExtractedTexts == {extracted_facts[1][i].value : i \in 1..Len(extracted_facts[1])}

\* C29: when a profile is extracted after a return to the profile page (Back
\* or Start New Evaluation), the approval flag and the fact text held for
\* row i are those of the newly extracted fact i, and the approved facts
\* confirmed from that page hold no text of an earlier extraction: each is
\* the text of a fact extracted last or a text the user typed.
C29_FreshRowsPerExtraction ==
    /\ [][ExtractStep =>
            \A i \in 1..Len(extracted_facts'[1]) :
                /\ fact_states'[1][i] = TRUE
                /\ fact_values'[1][i] = extracted_facts'[1][i].value]_vars
    /\ []((stage = "message_generation" /\ extracted_facts # <<>>) =>
            Range(approved_facts) \subseteq ExtractedTexts \cup {TypedFact})

\* a must-include function returned
MustIncludeReturned ==
    fn_call.fn \in {"must_include_all", "must_include_check"} /\ fn_ret # NoFn

\* C25: for a message whose only chat wording is "call", the request_chat
\* requirement is satisfied in relaxed mode and, strict mode requiring the
\* literal "chat", not satisfied in strict mode, request_chat being listed
\* as missing.
C25_CallSatisfiesRelaxedOnly ==
    (/\ MustIncludeReturned
     /\ fn_call.text = CallMessage
     /\ fn_call.must_include = <<"request_chat">>) =>
        fn_ret.value = IF fn_call.strict_mode
                         THEN [ok |-> FALSE, items |-> <<"request_chat">>]
                         ELSE [ok |-> TRUE, items |-> <<>>]

\* run_all_checks returned
ChecksReturned == fn_call.fn = "run_all_checks" /\ fn_ret # NoFn

\* C27: in every result of run_all_checks, whatever the message, the list
\* of approved facts (the empty one included), the must-include list and the
\* mode, overall_pass is false exactly when failure_reasons is non-empty,
\* and notes is "All checks passed" exactly when overall_pass is true.
C27_ReasonsExplainVerdict ==
    ChecksReturned =>
        /\ ~fn_ret.overall_pass <=> fn_ret.failure_reasons # <<>>
        /\ fn_ret.notes = << <<"All checks passed">> >> <=> fn_ret.overall_pass

\* analyze_enforcement_behavior returned
AnalyzeReturned == fn_call.fn = "analyze_enforcement_behavior" /\ fn_ret # NoFn

\* the number of the three detectors that fire for one fact of the call
DetectorsFiring(fact) ==
    (IF detect_softened_claim(fn_call.message, fact) THEN 1 ELSE 0)
    + (IF detect_suppressed_claim(fn_call.message, fact, fn_call.approved_facts)
         THEN 1 ELSE 0)
    + (IF detect_enforcement_violation(fn_call.message, fact, fn_call.conversion_log)
         THEN 1 ELSE 0)

\* the sum of the three counters returned
CountersSum ==
    fn_ret.value.softened_claims_count + fn_ret.value.suppressed_claims_count
    + fn_ret.value.enforcement_violations_count

\* C30: for one message, analyze_enforcement_behavior counts each
\* high-stakes fact in at most one of softened_claims_count,
\* suppressed_claims_count and enforcement_violations_count, so the sum of
\* the three counters never exceeds total_high_stakes_facts_detected.
C30_OneCounterPerFact ==
    AnalyzeReturned =>
        /\ \A i \in 1..Len(fn_call.high_stakes_facts) :
              DetectorsFiring(fn_call.high_stakes_facts[i]) <= 1
        /\ CountersSum <= fn_ret.value.total_high_stakes_facts_detected

\* a hedged message that also uses a definite wording, analysed for a
\* converted fact and a second fact: every fact is counted once
C30_Witness ==
    /\ AnalyzeReturned
    /\ fn_call.enforcement_enabled
    /\ fn_call.message = MessageHedged
    /\ fn_call.conversion_log # <<>>
    /\ fn_ret.value.total_high_stakes_facts_detected = 2
    /\ fn_ret.value.softened_claims_count >= 1
    /\ CountersSum = 2

\* generate_message returned the row of a run
RowReturned == fn_call.fn = "generate_message" /\ fn_ret # NoFn

\* the message of the call: the whole content of the completion
MessageOfRow == cli_message(outcome_of(fn_call).content)

\* what run_checks computes for the message of the call
ChecksOfRow ==
    run_checks(MessageOfRow, prompt_of(fn_call).max_words, fn_call.must_include,
               fn_call.allowed_facts, prompt_of(fn_call).tone, FALSE, <<>>, "", "", "")

\* the row is the all-failed error row
IsErrorRow(row) ==
    /\ row.confidence = 0
    /\ ~row.overall_pass
    /\ row.adds_new_facts
    /\ row.message = EmptyText

\* C26: in the command-line evaluator a run whose completion call succeeds
\* is recorded with its message and the verdicts run_checks computes for it
\* (within_word_limit, must_include_ok, tone_ok, the new-facts flag,
\* overall_pass), and the all-failed error row is recorded only when the
\* completion call itself raises.
C26_SuccessfulRunKeepsVerdicts ==
    (RowReturned /\ fn_call.error = None) =>
        /\ ~IsErrorRow(fn_ret.value)
        /\ fn_ret.value.message = MessageOfRow
        /\ fn_ret.value.within_word_limit = ChecksOfRow.within_word_limit
        /\ fn_ret.value.must_include_ok = ChecksOfRow.must_include_ok
        /\ fn_ret.value.tone_ok = ChecksOfRow.tone_ok
        /\ fn_ret.value.adds_new_facts = ChecksOfRow.fabrication_detected
        /\ fn_ret.value.overall_pass = ChecksOfRow.overall_pass

=============================================================================
